---- MODULE Spec2Model ----
(***************************************************************************)
(* The event-scheduling kernel of requsim: EventQueue of                   *)
(* src/requsim/events.py.  The queue is a Python list of Event objects     *)
(* kept in (time, priority) order by a hand-written bisection; resolving   *)
(* the head event calls Event.resolve(), whose effect and callbacks are    *)
(* user code that may call add_event on the same queue before              *)
(* resolve_next_event has removed the head.  That re-entrancy is modelled  *)
(* by splitting resolve_next_event at the call of event.resolve().         *)
(***************************************************************************)
EXTENDS Integers, Sequences, FiniteSets, TLC

VARIABLES
    queue,         \* EventQueue.queue: the list of pending events
    current_time,  \* EventQueue.current_time
    stats,         \* EventQueue._stats: per-type counters
    pc,            \* "idle", or "resolving" while event.resolve() runs
    event,         \* the local variable `event` of resolve_next_event
    target,        \* target_time of the resolve_until call in progress
    base,          \* history: what was resolved, added and pending when
                   \* the latest resolve_until began, NoBase once the
                   \* next call is made
    added,         \* history: every event add_event accepted, by id
    resolved,      \* history: the events event.resolve() was called on
                   \* and did not raise for
    last,          \* history: the call that returned or raised last, NoCall
                   \* while a resolve_next_event or resolve_until runs
    world_objects, \* World.world_objects: type -> list of objects
    label_counters,\* World._label_counters: type -> objects registered so far
    objs,          \* every WorldObject ever constructed, by identity
    evs,           \* every Event constructed on world objects, by identity
    trace          \* history: the effects and callbacks called, in order

(* The EventQueue, and the World with its objects and their events. *)
qvars == <<queue, current_time, stats, pc, event, target, base, added,
           resolved, last>>

wvars == <<world_objects, label_counters, objs, evs, trace>>

vars == <<queue, current_time, stats, pc, event, target, base, added,
          resolved, last, world_objects, label_counters, objs, evs, trace>>

----------------------------------------------------------------------------
(* Bounds of the model. *)

MaxTime == 1
MaxEvents == 3

(* Event.__init__: priority defaults to 20; UnblockEvent defaults to 0. *)
DefaultPriority == 20
UnblockPriority == 0
(* DiscardQubitEvent.__init__: priority defaults to 39. *)
DiscardPriority == 39

Times == 0 .. MaxTime
EventTypes == {"GenericEvent", "UnblockEvent"}

(* The event classes that have a default priority of their own, and the    *)
(* classes the queue keeps counters for.                                   *)
PriorityEventTypes == EventTypes \cup {"DiscardQubitEvent"}

(* The event classes the statistics of the queue are read for. *)
StatEventTypes ==
    PriorityEventTypes \cup {"SourceEvent", "EntanglementSwappingEvent",
                             "EntanglementPurificationEvent"}

NoTarget == -1
(* Event.type is the class name; each class has its default priority       *)
(* (Event.__init__: 20, UnblockEvent.__init__: 0).                         *)
(* Mutant: DiscardQubitEvent is left at the priority of Event.__init__. *)
DefaultPriorityOfNoDiscard(ty) ==
    IF ty = "UnblockEvent" THEN UnblockPriority ELSE DefaultPriority

DefaultPriorityOf(ty) ==
    IF ty = "UnblockEvent" THEN UnblockPriority
    ELSE IF ty = "DiscardQubitEvent" THEN DiscardPriority
    ELSE DefaultPriority

(* The events are built with required_objects=None, which Event.__init__   *)
(* turns into the empty list.                                              *)
NoObjects == <<>>

(* Event.__init__: ignore_blocked defaults to False; UnblockEvent passes   *)
(* True and DiscardQubitEvent defaults to True.                            *)
DefaultIgnoreBlockedOf(ty) == ty \in {"UnblockEvent", "DiscardQubitEvent"}

(* The types of world objects (WorldObject.type, the class name). *)
ObjectTypes ==
    {"Station", "Source", "Qubit", "Pair", "DummyObject", "2-qubit MultiQubit"}

Range(s) == {s[k] : k \in 1 .. Len(s)}

(* A local variable: x is computed once and handed to F. *)
Bind(x, F(_)) == CHOOSE r \in {F(v) : v \in {x}} : TRUE

(* World.__contains__: the objects listed under their type. *)
WorldObjects == UNION {Range(world_objects[ty]) : ty \in ObjectTypes}

(* The objects whose is_blocked is True. *)
BlockedObjects == {o \in 1 .. Len(objs) : objs[o].is_blocked}

NoEvent == [id |-> 0, time |-> 0, priority |-> 0, type |-> "none",
            required_objects |-> NoObjects, ignore_blocked |-> FALSE]
NoCall == [op |-> "none", arg |-> 0, raised |-> FALSE]
NoBase == [n |-> 0, nadded |-> 0, pending |-> {}]

----------------------------------------------------------------------------
(* EventQueue._insert_event *)

(* Mutant: the comparison of bisect_left, which inserts left of ties. *)
KeyLessOrEqual(x, mid_event) ==
    \/ x[1] < mid_event.time
    \/ x[1] = mid_event.time /\ x[2] <= mid_event.priority

(* x < (mid_event.time, mid_event.priority): Python tuple comparison. *)
KeyLess(x, mid_event) ==
    \/ x[1] < mid_event.time
    \/ x[1] = mid_event.time /\ x[2] < mid_event.priority

(* The while loop; lo and hi are 0-based, Python's queue[mid] is q[mid+1]. *)
RECURSIVE Bisect(_, _, _, _)
Bisect(q, x, lo, hi) ==
    IF lo < hi
    THEN LET mid == (lo + hi) \div 2
         IN  IF KeyLess(x, q[mid + 1])
             THEN Bisect(q, x, lo, mid)
             ELSE Bisect(q, x, mid + 1, hi)
    ELSE lo

(* Mutant: the event is appended, the position found is not used. *)
ListAppend(q, lo, e) == Append(q, e)

(* list.insert(lo, e) *)
ListInsert(q, lo, e) ==
    SubSeq(q, 1, lo) \o <<e>> \o SubSeq(q, lo + 1, Len(q))

(* Mutant: the key of the search is the time alone. *)
insert_event_by_time(q, e) ==
    ListInsert(q, Bisect(q, <<e.time, 0>>, 0, Len(q)), e)

insert_event(q, e) ==
    ListInsert(q, Bisect(q, <<e.time, e.priority>>, 0, Len(q)), e)

----------------------------------------------------------------------------
(* EventQueue.__init__ *)

ZeroStats == [scheduled |-> 0, resolved |-> 0, resolved_successfully |-> 0]

(* World.__init__: no objects; a type's list and counter appear with its   *)
(* first object, an absent counter reads 0 (defaultdict).                  *)
InitWorld ==
    /\ world_objects = [ty \in ObjectTypes |-> <<>>]
    /\ label_counters = [ty \in ObjectTypes |-> 0]
    /\ objs = <<>>
    /\ evs = <<>>
    /\ trace = <<>>

InitQueue ==
    /\ queue = <<>>
    /\ current_time = 0
    /\ stats = [ty \in StatEventTypes |-> ZeroStats]
    /\ pc = "idle"
    /\ event = NoEvent
    /\ target = NoTarget
    /\ base = NoBase
    /\ added = <<>>
    /\ resolved = <<>>
    /\ last = NoCall

Init == InitQueue /\ InitWorld

----------------------------------------------------------------------------
(* EventQueue.add_event, called by the user between two calls, or by the   *)
(* effect or a callback of the event being resolved.                       *)

(* Mutant: an event at the current time is rejected too. *)
AddEventRaisesAtNow(t, now) == t <= now

(* Mutant: an event one time step in the past is accepted. *)
AddEventRaisesLate(t, now) == t + 1 < now

(* if event.time < self.current_time: raise ValueError *)
AddEventRaises(t, now) == t < now

add_event(t, ty) ==
    /\ \/ pc = "idle" /\ target = NoTarget
       \/ pc = "resolving"
    /\ IF AddEventRaises(t, current_time)
       THEN /\ last' = [op |-> "add_event", arg |-> t, raised |-> TRUE]
            /\ base' = IF pc = "idle" THEN NoBase ELSE base
            /\ UNCHANGED <<queue, current_time, stats, pc, event, target,
                           added, resolved>>
       ELSE /\ Len(added) < MaxEvents
            /\ LET e == [id |-> Len(added) + 1, time |-> t,
                         priority |-> DefaultPriorityOf(ty), type |-> ty,
                         required_objects |-> NoObjects,
                         ignore_blocked |-> DefaultIgnoreBlockedOf(ty)]
               IN  /\ queue' = insert_event(queue, e)
                   /\ added' = Append(added, e)
            /\ stats' = [stats EXCEPT ![ty].scheduled = @ + 1]
            /\ last' = [op |-> "add_event", arg |-> t, raised |-> FALSE]
            /\ base' = IF pc = "idle" THEN NoBase ELSE base
            /\ UNCHANGED <<current_time, pc, event, target, resolved>>
    /\ UNCHANGED wvars

AddEvent == \E t \in Times, ty \in EventTypes : add_event(t, ty)

----------------------------------------------------------------------------
(* EventQueue.resolve_next_event *)

(* Lines 869-871 up to the call of event.resolve(). *)
ResolveHead ==
    /\ event' = queue[1]
    /\ current_time' = queue[1].time
    /\ resolved' = Append(resolved, queue[1])
    /\ pc' = "resolving"

(* self.queue = self.queue[1:] *)
DropFirst(q) == SubSeq(q, 2, Len(q))

(* The user's call.  On an empty queue self.queue[0] raises IndexError. *)
ResolveNextEventCall ==
    /\ pc = "idle" /\ target = NoTarget
    /\ IF queue = <<>>
       THEN /\ last' = [op |-> "resolve_next_event", arg |-> 0,
                        raised |-> TRUE]
            /\ UNCHANGED <<queue, current_time, stats, pc, event, target,
                           added, resolved>>
       ELSE /\ ResolveHead
            /\ last' = NoCall
            /\ UNCHANGED <<queue, stats, target, added>>
    /\ base' = NoBase
    /\ UNCHANGED wvars

(* Mutant: the warning is given for a blocked object also when a required  *)
(* object is not in the world.                                             *)
blocked_access_warned_any(e, in_world, blocked) ==
    /\ ~e.ignore_blocked
    /\ \E k \in 1 .. Len(e.required_objects) : e.required_objects[k] \in blocked

(* Event._check_event_is_valid, the call of warn: reached when             *)
(* ignore_blocked is False, every required object is in the world and one  *)
(* of them is blocked.                                                     *)
blocked_access_warned(e, in_world, blocked) ==
    /\ ~e.ignore_blocked
    /\ \A k \in 1 .. Len(e.required_objects) : e.required_objects[k] \in in_world
    /\ \E k \in 1 .. Len(e.required_objects) : e.required_objects[k] \in blocked

(* np.all([(req_object in req_object.world)                                *)
(*         for req_object in self.required_objects]); np.all of an empty   *)
(* list is True.  in_world is the set of objects registered in the world.  *)
objects_exist(e, in_world) ==
    \A k \in 1 .. Len(e.required_objects) : e.required_objects[k] \in in_world

(* Event._check_event_is_valid: every required object is in the world and *)
(* (unless ignore_blocked) none is blocked.  blocked is the set of objects *)
(* with is_blocked.                                                        *)
check_event_is_valid(e, in_world, blocked) ==
    LET objects_available ==
            IF e.ignore_blocked
            THEN TRUE
            ELSE \A k \in 1 .. Len(e.required_objects) :
                     e.required_objects[k] \notin blocked
    IN  objects_exist(e, in_world) /\ objects_available

(* The functions a GenericEvent wraps besides destroy_function: one that   *)
(* returns None, one that returns a dict of its own keys, and two whose    *)
(* dicts hold keys of the event's _return_dict.                            *)
ResolveFunctions ==
    {"return_none", "return_info", "return_unsuccessful", "return_event"}

(* What the wrapped function returns; None is the record with none. *)
resolve_function_return(f) ==
    IF f = "return_none" THEN [none |-> TRUE]
    ELSE IF f = "return_info" THEN [info |-> 1]
    ELSE IF f = "return_unsuccessful" THEN [resolve_successful |-> FALSE]
    ELSE [event |-> 0, event_type |-> "other"]

(* self._return_dict.update(main_return_dict) with its except TypeError:   *)
(* the entries event, event_type and resolve_successful afterwards.  A key *)
(* of main_return_dict replaces the entry; None leaves the dict as it is.  *)
return_dict_update(ev, main_return_dict) ==
    [event |-> IF "event" \in DOMAIN main_return_dict
               THEN main_return_dict.event ELSE ev.event,
     event_type |-> IF "event_type" \in DOMAIN main_return_dict
                    THEN main_return_dict.event_type ELSE ev.event_type,
     resolve_successful |->
         IF "resolve_successful" \in DOMAIN main_return_dict
         THEN main_return_dict.resolve_successful
         ELSE ev.resolve_successful]

(* A resolve_function that raises an exception of its own. *)
RaisingFunction == "raise_error"

(* What the effect of a pending event of the queue does when it is called: *)
(* a GenericEvent wraps a function of the caller, the effects of the other *)
(* classes return a dict of their own keys.                                *)
EffectsOf(e) ==
    IF e.type = "GenericEvent" THEN ResolveFunctions \cup {RaisingFunction}
    ELSE {"return_info"}

(* Event.__init__: the _return_dict of a new event. *)
Event_return_dict(e) ==
    [event |-> e.id, event_type |-> e.type, resolve_successful |-> TRUE]

(* Event.resolve, the dict it returns when the effect f returns: the       *)
(* effect's dict updates _return_dict if the event is valid, otherwise     *)
(* resolve_successful is set to False.                                     *)
Event_resolve(e, f, in_world, blocked) ==
    IF check_event_is_valid(e, in_world, blocked)
    THEN return_dict_update(Event_return_dict(e), resolve_function_return(f))
    ELSE [Event_return_dict(e) EXCEPT !.resolve_successful = FALSE]

(* Lines 872-876, after event.resolve() returned return_message. *)
ResolveNextEventReturn ==
    /\ pc = "resolving"
    /\ \E f \in EffectsOf(event) \ {RaisingFunction} :
           \E return_message \in {Event_resolve(event, f, WorldObjects,
                                                BlockedObjects)} :
               stats' = [stats EXCEPT
                           ![event.type].resolved = @ + 1,
                           ![event.type].resolved_successfully =
                               IF return_message.resolve_successful
                               THEN @ + 1 ELSE @]
    /\ queue' = DropFirst(queue)
    /\ pc' = "idle"
    /\ event' = NoEvent
    /\ last' = IF target = NoTarget
               THEN [op |-> "resolve_next_event", arg |-> event.id,
                     raised |-> FALSE]
               ELSE last
    /\ UNCHANGED <<current_time, target, base, added, resolved>>
    /\ UNCHANGED wvars

(* event.resolve() raised: the effect of a valid event raised.  Lines      *)
(* 872-876 are not reached, the event stays at the head of the queue and   *)
(* no counter changes; the exception leaves resolve_next_event, and the    *)
(* loop of a resolve_until that made the call.  The history keeps the      *)
(* resolutions that returned: the one that raised is taken out again.      *)
ResolveNextEventRaise ==
    /\ pc = "resolving"
    /\ check_event_is_valid(event, WorldObjects, BlockedObjects)
    /\ RaisingFunction \in EffectsOf(event)
    /\ pc' = "idle"
    /\ event' = NoEvent
    /\ target' = NoTarget
    /\ resolved' = SubSeq(resolved, 1, Len(resolved) - 1)
    /\ last' = IF target = NoTarget
               THEN [op |-> "resolve_next_event", arg |-> event.id,
                     raised |-> TRUE]
               ELSE [op |-> "resolve_until", arg |-> target, raised |-> TRUE]
    /\ UNCHANGED <<queue, current_time, stats, base, added>>
    /\ UNCHANGED wvars

----------------------------------------------------------------------------
(* EventQueue.resolve_until *)

(* Mutant: the test is off by one. *)
ResolveUntilRaisesLate(target_time, now) == target_time + 1 < now

(* if target_time < self.current_time: raise ValueError *)
ResolveUntilRaises(target_time, now) == target_time < now

resolve_until(target_time) ==
    /\ pc = "idle" /\ target = NoTarget
    /\ IF ResolveUntilRaises(target_time, current_time)
       THEN /\ last' = [op |-> "resolve_until", arg |-> target_time,
                        raised |-> TRUE]
            /\ base' = NoBase
            /\ UNCHANGED <<queue, current_time, stats, pc, event, target,
                           added, resolved>>
       ELSE /\ target' = target_time
            /\ base' = [n |-> Len(resolved), nadded |-> Len(added),
                         pending |-> {queue[k].id : k \in 1 .. Len(queue)}]
            /\ last' = NoCall
            /\ UNCHANGED <<queue, current_time, stats, pc, event, added,
                           resolved>>
    /\ UNCHANGED wvars

ResolveUntilCall == \E target_time \in Times : resolve_until(target_time)

(* One test of the while loop: resolve the head, or leave the loop. *)
ResolveUntilLoop ==
    /\ pc = "idle" /\ target # NoTarget
    /\ IF queue # <<>> /\ queue[1].time <= target
       THEN /\ ResolveHead
            /\ UNCHANGED <<queue, stats, target, base, added, last>>
       ELSE /\ current_time' = target
            /\ target' = NoTarget
            /\ last' = [op |-> "resolve_until", arg |-> target,
                        raised |-> FALSE]
            /\ UNCHANGED <<queue, stats, pc, event, base, added, resolved>>
    /\ UNCHANGED wvars

----------------------------------------------------------------------------
(* EventQueue.advance_time *)

(* Mutant: reaching the head event's time raises too. *)
AdvanceTimeRaisesAtHead(q, now) == q # <<>> /\ q[1].time <= now

(* if self.queue and self.queue[0].time < self.current_time: raise *)
AdvanceTimeRaises(q, now) == q # <<>> /\ q[1].time < now

advance_time(time_interval) ==
    /\ pc = "idle" /\ target = NoTarget
    /\ current_time + time_interval <= MaxTime
    /\ current_time' = current_time + time_interval
    /\ last' = [op |-> "advance_time", arg |-> time_interval,
                raised |-> AdvanceTimeRaises(queue, current_time')]
    /\ base' = NoBase
    /\ UNCHANGED <<queue, stats, pc, event, target, added, resolved>>
    /\ UNCHANGED wvars

AdvanceTime == \E time_interval \in Times : advance_time(time_interval)

----------------------------------------------------------------------------
Next ==
    \/ AddEvent
    \/ ResolveNextEventCall
    \/ ResolveNextEventReturn
    \/ ResolveNextEventRaise
    \/ ResolveUntilCall
    \/ ResolveUntilLoop
    \/ AdvanceTime

Spec == Init /\ [][Next]_vars

----------------------------------------------------------------------------
(* Draining: every add_event is made before the first resolve_next_event,  *)
(* and the events' effects and callbacks add nothing.                      *)

DrainAdd ==
    /\ resolved = <<>> /\ pc = "idle"
    /\ last.op \in {"none", "add_event"}
    /\ AddEvent

NextDrain ==
    \/ DrainAdd
    \/ ResolveNextEventCall
    \/ ResolveNextEventReturn
    \/ ResolveNextEventRaise

SpecDrain == Init /\ [][NextDrain]_vars

----------------------------------------------------------------------------
(* Events of the three classes with a default priority of their own,       *)
(* UnblockEvent, GenericEvent and DiscardQubitEvent, added in any order    *)
(* and resolved one by one.                                                *)

PriorityAdd ==
    \E t \in Times, ty \in PriorityEventTypes :
        pc = "idle" /\ add_event(t, ty)

NextPriority ==
    \/ PriorityAdd
    \/ ResolveNextEventCall
    \/ ResolveNextEventReturn
    \/ ResolveNextEventRaise

SpecPriority == Init /\ [][NextPriority]_vars

----------------------------------------------------------------------------
(* The order the claims speak of, stated on events. *)

Before(a, b) ==
    a.time < b.time \/ (a.time = b.time /\ a.priority < b.priority)

SameKey(a, b) == a.time = b.time /\ a.priority = b.priority

Ids(s) == {s[k].id : k \in 1 .. Len(s)}

----------------------------------------------------------------------------
(* C1: when all add_event calls precede the draining, the events are       *)
(* resolved in non-decreasing (time, priority) order and events of equal   *)
(* (time, priority) are resolved in the order they were added.             *)
C1_DrainOrder ==
    \A i, j \in 1 .. Len(resolved) :
        i < j => /\ ~Before(resolved[j], resolved[i])
                 /\ SameKey(resolved[i], resolved[j])
                        => resolved[i].id < resolved[j].id

(* Three events drained, two of equal key, one resolved before an event    *)
(* that was added earlier.                                                 *)
C1_Witness ==
    /\ Len(resolved) = 3 /\ queue = <<>> /\ pc = "idle"
    /\ \E i, j \in 1 .. 3 : i < j /\ SameKey(resolved[i], resolved[j])
    /\ \E i, j \in 1 .. 3 : i < j /\ resolved[i].id > resolved[j].id

(* C2 as stated: over any interleaving of add_event and                    *)
(* resolve_next_event the resolved events are in ascending                 *)
(* (time, priority) order, ties in insertion order.                        *)
C2_ResolvedInKeyOrder ==
    \A i, j \in 1 .. Len(resolved) :
        i < j => /\ ~Before(resolved[j], resolved[i])
                 /\ SameKey(resolved[i], resolved[j])
                        => resolved[i].id <= resolved[j].id

(* C2 amended: the resolved events are in non-decreasing time order, and   *)
(* the event whose resolution starts is the first of the events pending    *)
(* at that moment in (time, priority) order, ties in insertion order.      *)
C2_ResolvesFirstPending ==
    [][Len(resolved') > Len(resolved) =>
         LET e == resolved'[Len(resolved')]
         IN  /\ \A k \in 1 .. Len(resolved) : resolved[k].time <= e.time
             /\ \A k \in 1 .. Len(queue) :
                    /\ ~Before(queue[k], e)
                    /\ SameKey(queue[k], e) => e.id <= queue[k].id]_vars

(* An event of lower priority number resolved after one of the same time,  *)
(* while another event of that time was pending.                           *)
C2_Witness ==
    /\ Len(resolved) >= 2 /\ pc = "resolving" /\ Len(queue) >= 2
    /\ \E i, j \in 1 .. Len(resolved) :
           i < j /\ Before(resolved[j], resolved[i])

(* C3: an event is resolved at most once, and between two calls no         *)
(* resolved event is pending.                                              *)
C3_ResolvedAtMostOnce ==
    /\ \A i, j \in 1 .. Len(resolved) :
           i < j => resolved[i].id # resolved[j].id
    /\ pc = "idle" => Ids(queue) \cap Ids(resolved) = {}

(* C4: every accepted event is pending or has been resolved. *)
C4_PendingUntilResolved ==
    \A id \in 1 .. Len(added) : id \in Ids(queue) \cup Ids(resolved)

(* C5: the pending queue is sorted ascending by (time, priority) in every  *)
(* state, those inside a resolution included.                              *)
C5_QueueSorted ==
    \A i, j \in 1 .. Len(queue) : i < j => ~Before(queue[j], queue[i])

(* An event was inserted by a callback in front of a later one. *)
C5_Witness ==
    /\ pc = "resolving" /\ Len(queue) = 3
    /\ last.op = "add_event" /\ ~last.raised
    /\ Before(queue[1], queue[3])
    /\ \E k \in 1 .. 2 : queue[k].id = Len(added)

(* C6: add_event with time < current_time raises and changes nothing;      *)
(* with time >= current_time the event is accepted.                        *)
C6_AddEventPast ==
    [][\A t \in Times, ty \in EventTypes :
         add_event(t, ty) =>
            IF t < current_time
            THEN /\ last'.raised
                 /\ queue' = queue /\ current_time' = current_time
                 /\ stats' = stats
            ELSE /\ ~last'.raised
                 /\ Len(queue') = Len(queue) + 1
                 /\ \E k \in 1 .. Len(queue') :
                        /\ queue'[k].id \notin Ids(queue)
                        /\ queue'[k].time = t
                 /\ stats'[ty].scheduled = stats[ty].scheduled + 1]_vars

(* A rejected add_event on a queue with a pending event. *)
C6_Witness ==
    /\ last.op = "add_event" /\ last.raised /\ last.arg < current_time
    /\ queue # <<>>

(* An add_event at exactly current_time > 0 that was accepted. *)
C6_WitnessEqual ==
    /\ last.op = "add_event" /\ ~last.raised /\ last.arg = current_time
    /\ current_time > 0

(* C7: advance_time raises exactly when current_time + interval is later   *)
(* than the head event's time, and otherwise moves current_time forward    *)
(* by the interval.                                                        *)
C7_AdvanceTime ==
    [][\A i \in Times :
         advance_time(i) =>
            /\ last'.raised <=>
                   (queue # <<>> /\ current_time + i > queue[1].time)
            /\ ~last'.raised =>
                   current_time' = current_time + i /\ queue' = queue]_vars

(* advance_time raised over a pending event. *)
C7_Witness ==
    /\ last.op = "advance_time" /\ last.raised
    /\ queue # <<>> /\ queue[1].time < current_time

(* C8: current_time never decreases. *)
C8_TimeMonotone == [][current_time' >= current_time]_vars

(* C9: a resolve_until(T) that returned has resolved every event with      *)
(* time <= T that was pending at the call or scheduled during it, has      *)
(* resolved no event with time > T, and has left current_time = T.         *)
C9_ResolveUntil ==
    (last.op = "resolve_until" /\ ~last.raised) =>
        /\ current_time = last.arg
        /\ \A k \in base.n + 1 .. Len(resolved) :
               resolved[k].time <= last.arg
        /\ \A id \in base.pending \cup (base.nadded + 1 .. Len(added)) :
               added[id].time <= last.arg =>
                   \E k \in base.n + 1 .. Len(resolved) : resolved[k].id = id

(* C10: resolve_until(T) with T < current_time raises, resolves nothing    *)
(* and changes neither current_time nor the queue.                         *)
C10_ResolveUntilPast ==
    [][\A T \in Times :
         (resolve_until(T) /\ T < current_time) =>
            /\ last'.raised
            /\ pc' = "idle" /\ target' = NoTarget
            /\ resolved' = resolved /\ queue' = queue
            /\ current_time' = current_time /\ stats' = stats]_vars

(* resolve_until raised while an event was pending. *)
C10_Witness ==
    /\ last.op = "resolve_until" /\ last.raised /\ last.arg < current_time
    /\ queue # <<>>

----------------------------------------------------------------------------
(* C15: among pending events of the same time with default priorities, an  *)
(* UnblockEvent stands before every other event and a DiscardQubitEvent    *)
(* after every other event, whatever the order they were added in.         *)
C15_DefaultPriorityOrder ==
    \A i, j \in 1 .. Len(queue) :
        (i < j /\ queue[i].time = queue[j].time) =>
            /\ queue[j].type = "UnblockEvent" => queue[i].type = "UnblockEvent"
            /\ queue[i].type = "DiscardQubitEvent"
                   => queue[j].type = "DiscardQubitEvent"

(* The three classes at one time, added discard, default, unblock. *)
C15_Witness ==
    /\ Len(queue) = 3
    /\ queue[1].time = queue[3].time
    /\ queue[1].type = "UnblockEvent" /\ queue[1].id = 3
    /\ queue[2].type = "GenericEvent" /\ queue[2].id = 2
    /\ queue[3].type = "DiscardQubitEvent" /\ queue[3].id = 1

----------------------------------------------------------------------------
(* The world-object registry: World.register_world_object,                *)
(* World.deregister_world_object, WorldObject.__init__ and                 *)
(* WorldObject.destroy.  An object is its index in objs; objs keeps every  *)
(* object ever constructed (a Python object outlives its registration),    *)
(* world_objects holds the buckets of registered objects by type.          *)

MaxObjects == 3

(* label=None of WorldObject.__init__. *)
NoLabel == ""

(* station=None and the like. *)
NoObject == 0

(* memory_cutoff_time=None *)
NoCutoff == -1

(* Labels a caller passes to the constructor. *)
CustomLabels == {"The Great Station", "Station 2"}

(* Types of the objects the registry specification constructs. *)
RegistryTypes == {"Station", "DummyObject"}

(* The world as one value, so that a handler that registers and removes    *)
(* several objects can be written as a composition; current_time is        *)
(* world.event_queue.current_time, which the objects read.                 *)
TheWorld ==
    [world_objects |-> world_objects, label_counters |-> label_counters,
     objs |-> objs, current_time |-> current_time]

(* f"{object_type} {self._label_counters[object_type]}" *)
DefaultLabel(ty, n) == ty \o " " \o ToString(n)

(* Mutant: the counter is not increased. *)
register_world_object_no_count(w, o, ty) ==
    [w EXCEPT !.world_objects[ty] = Append(@, o)]

(* Mutant: the label is numbered by the current size of the bucket. *)
RegisteredLabelByBucket(w, ty) == DefaultLabel(ty, Len(w.world_objects[ty]))

(* World.register_world_object: append to the bucket of the type, add one  *)
(* to the counter of the type.                                             *)
register_world_object(w, o, ty) ==
    [w EXCEPT !.world_objects[ty] = Append(@, o),
              !.label_counters[ty] = @ + 1]

(* The label register_world_object returns, read in the world it leaves.   *)
RegisteredLabel(w, ty) == DefaultLabel(ty, w.label_counters[ty])

(* list.remove: the first occurrence is taken out. *)
ListRemove(s, x) ==
    LET i == CHOOSE k \in 1 .. Len(s) :
                 s[k] = x /\ \A j \in 1 .. k - 1 : s[j] # x
    IN  SubSeq(s, 1, i - 1) \o SubSeq(s, i + 1, Len(s))

(* Mutant: the last object of the bucket is taken out. *)
deregister_world_object_pop(w, o) ==
    LET ty == w.objs[o].type
    IN  [w EXCEPT !.world_objects[ty] = SubSeq(@, 1, Len(@) - 1)]

(* World.deregister_world_object: remove the object from the bucket of its *)
(* type; the ValueError of an absent object is swallowed.                  *)
deregister_world_object(w, o) ==
    LET ty == w.objs[o].type
    IN  IF o \in Range(w.world_objects[ty])
        THEN [w EXCEPT !.world_objects[ty] = ListRemove(@, o)]
        ELSE w

(* resource_cost_add and resource_cost_max of a pair that is not tracked:  *)
(* None.                                                                   *)
NoCost == -1

(* A noise model without the channel or the map: None. *)
NoChannel == 0

(* memory_noise of a station without memory noise: None. *)
NoNoise == "None"

(* NoiseModel(): no channel before, no replacing map, no channel after.  A *)
(* channel is known by its n_qubits, the replacing map by its presence.    *)
NoiseModel ==
    [channel_before |-> NoChannel, map_replace |-> FALSE,
     channel_after |-> NoChannel]

(* The fields WorldObject.__init__ and the subclasses set.  label_arg      *)
(* keeps the constructor's label argument, now is                          *)
(* self.event_queue.current_time.                                          *)
NewObjectRecord(ty, label, label_arg, now) ==
    [type |-> ty, label |-> label, label_arg |-> label_arg,
     is_blocked |-> FALSE, required_by_events |-> <<>>,
     station |-> NoObject, pair |-> NoObject, qubits |-> <<>>,
     target_stations |-> <<>>,
     \* quantum_objects/world_object.py, qubit.py, station.py, multi_qubit.py
     destroy_callbacks |-> <<[kind |-> "deregister_world_object",
                              obj |-> NoObject]>>,
     higher_order_object |-> NoObject, unresolved_noises |-> <<>>,
     noise_handlers |-> <<>>, state |-> <<>>, applied |-> <<>>,
     memory_cutoff_time |-> NoCutoff,
     \* quantum_objects.py: Pair.__init__, Station.__init__
     resource_cost_add |-> NoCost, resource_cost_max |-> NoCost,
     resource_tracking |-> <<>>, BSM_noise_model |-> NoiseModel,
     \* quantum_objects/world_object.py, qubit.py, station.py: the time of
     \* the queue at the construction, no time-dependent noise
     last_updated |-> now, time_dependent_noises |-> <<>>,
     memory_noise |-> NoNoise]

(* WorldObject.__init__: register, take the returned label unless the      *)
(* caller gave one; last_updated is the current time of the event queue.   *)
WorldObject_init(w, ty, label_arg) ==
    LET o == Len(w.objs) + 1
        w1 == register_world_object(w, o, ty)
        label == IF label_arg = NoLabel THEN RegisteredLabel(w1, ty)
                 ELSE label_arg
    IN  [w1 EXCEPT !.objs = Append(@, NewObjectRecord(ty, label, label_arg,
                                                      w.current_time))]

(* WorldObject.destroy: the destroy callbacks, of which the first and for  *)
(* a plain object the only one is World.deregister_world_object.           *)
WorldObject_destroy(w, o) == deregister_world_object(w, o)

(* The world variables take the values of w. *)
SetWorld(w) ==
    /\ world_objects' = w.world_objects
    /\ label_counters' = w.label_counters
    /\ objs' = w.objs

(* The record of the latest call into the world: the operation, the       *)
(* object, whether the object was registered when the call was made, and   *)
(* whether the call raised.                                                *)
WorldCall(op, o) ==
    <<[op |-> op, obj |-> o, present |-> o \in WorldObjects, raised |-> FALSE]>>

NewObject(ty, label_arg) ==
    /\ Len(objs) < MaxObjects
    /\ SetWorld(WorldObject_init(TheWorld, ty, label_arg))
    /\ trace' = WorldCall("WorldObject", Len(objs) + 1)
    /\ UNCHANGED <<evs, qvars>>

Destroy(o) ==
    /\ SetWorld(WorldObject_destroy(TheWorld, o))
    /\ trace' = WorldCall("destroy", o)
    /\ UNCHANGED <<evs, qvars>>

Deregister(o) ==
    /\ SetWorld(deregister_world_object(TheWorld, o))
    /\ trace' = WorldCall("deregister_world_object", o)
    /\ UNCHANGED <<evs, qvars>>

RegistryNew ==
    \E ty \in RegistryTypes, label_arg \in {NoLabel} \cup CustomLabels :
        NewObject(ty, label_arg)

RegistryDestroy == \E o \in 1 .. Len(objs) : Destroy(o)

RegistryDeregister == \E o \in 1 .. Len(objs) : Deregister(o)

NextRegistry ==
    \/ RegistryNew
    \/ RegistryDestroy
    \/ RegistryDeregister

SpecRegistry == Init /\ [][NextRegistry]_vars

----------------------------------------------------------------------------
(* Stations, sources, qubits and pairs (quantum_objects.py).  The quantum  *)
(* state of a pair is left out; stations have no memory cutoff time, so    *)
(* create_qubit schedules no DiscardQubitEvent.                            *)

(* Qubit.__init__: the station is kept, the pair is None. *)
Qubit_init(w, st) ==
    LET w1 == WorldObject_init(w, "Qubit", NoLabel)
    IN  [w1 EXCEPT !.objs[Len(w1.objs)].station = st]

(* Station.create_qubit: a new qubit, appended to the station's qubits. *)
create_qubit(w, st) ==
    LET w1 == Qubit_init(w, st)
    IN  [w1 EXCEPT !.objs[st].qubits = Append(@, Len(w1.objs))]

(* Pair.__init__: the qubits point to the pair, the pair is registered. *)
Pair_init(w, qubits) ==
    LET p == Len(w.objs) + 1
        w0 == [w EXCEPT !.objs[qubits[1]].pair = p]
        w1 == [w0 EXCEPT !.objs[qubits[2]].pair = p]
        w2 == WorldObject_init(w1, "Pair", NoLabel)
    IN  [w2 EXCEPT !.objs[p].qubits = qubits]

(* station.resource_tracking[partner]: a defaultdict, a missing key reads  *)
(* as zero costs and is created by the read.                               *)
ZeroResources == [resource_cost_add |-> 0, resource_cost_max |-> 0]

resource_tracking_get(w, st, partner) ==
    IF partner \in DOMAIN w.objs[st].resource_tracking
    THEN w.objs[st].resource_tracking[partner]
    ELSE ZeroResources

resource_tracking_set(w, st, partner, resources) ==
    [w EXCEPT !.objs[st].resource_tracking =
        [k \in DOMAIN w.objs[st].resource_tracking \cup {partner} |->
            IF k = partner THEN resources
            ELSE w.objs[st].resource_tracking[k]]]

(* Pair.__init__ with initial_cost_add and initial_cost_max: a tracked     *)
(* cost takes up what lingers at the stations of the qubits for each       *)
(* other, and the lingering count is reset.                                *)
Pair_init_costs(w, qubits, initial_cost_add, initial_cost_max) ==
    LET p == Len(w.objs) + 1
        station1 == w.objs[qubits[1]].station
        station2 == w.objs[qubits[2]].station
        resources1 == resource_tracking_get(w, station1, station2)
        cost_add == IF initial_cost_add = NoCost THEN NoCost
                    ELSE initial_cost_add + resources1.resource_cost_add
        cost_max == IF initial_cost_max = NoCost THEN NoCost
                    ELSE initial_cost_max + resources1.resource_cost_max
        reset == [resource_cost_add |->
                      IF initial_cost_add = NoCost
                      THEN resources1.resource_cost_add ELSE 0,
                  resource_cost_max |->
                      IF initial_cost_max = NoCost
                      THEN resources1.resource_cost_max ELSE 0]
        w1 == IF initial_cost_add = NoCost /\ initial_cost_max = NoCost
              THEN w
              ELSE resource_tracking_set(
                       resource_tracking_set(w, station1, station2, reset),
                       station2, station1, reset)
        w2 == Pair_init(w1, qubits)
    IN  [w2 EXCEPT !.objs[p].resource_cost_add = cost_add,
                   !.objs[p].resource_cost_max = cost_max]

(* Pair.destroy_and_track_resources: the tracked costs of the pair linger  *)
(* at the stations of its qubits, then the pair is destroyed.              *)
destroy_and_track_resources(w, p) ==
    LET station1 == w.objs[w.objs[p].qubits[1]].station
        station2 == w.objs[w.objs[p].qubits[2]].station
        Lingering(r) ==
            [resource_cost_add |->
                 IF w.objs[p].resource_cost_add = NoCost
                 THEN r.resource_cost_add
                 ELSE r.resource_cost_add + w.objs[p].resource_cost_add,
             resource_cost_max |->
                 IF w.objs[p].resource_cost_max = NoCost
                 THEN r.resource_cost_max
                 ELSE r.resource_cost_max + w.objs[p].resource_cost_max]
        tracked == w.objs[p].resource_cost_add # NoCost
                   \/ w.objs[p].resource_cost_max # NoCost
        w1 == IF tracked
              THEN resource_tracking_set(
                       w, station1, station2,
                       Lingering(resource_tracking_get(w, station1, station2)))
              ELSE w
        w2 == IF tracked
              THEN resource_tracking_set(
                       w1, station2, station1,
                       Lingering(resource_tracking_get(w1, station2, station1)))
              ELSE w1
    IN  WorldObject_destroy(w2, p)

(* Station.__init__ *)
Station_init(w) == WorldObject_init(w, "Station", NoLabel)

(* Source.__init__ *)
Source_init(w, target_stations) ==
    LET w1 == WorldObject_init(w, "Source", NoLabel)
    IN  [w1 EXCEPT !.objs[Len(w1.objs)].target_stations = target_stations]

(* Source.generate_pair(initial_state, initial_cost_add, initial_cost_max): *)
(* a qubit at each target station and their pair, constructed with the     *)
(* initial costs.                                                          *)
generate_pair(w, s, initial_cost_add, initial_cost_max) ==
    LET station1 == w.objs[s].target_stations[1]
        station2 == w.objs[s].target_stations[2]
        w1 == create_qubit(w, station1)
        w2 == create_qubit(w1, station2)
    IN  Pair_init_costs(w2, <<Len(w1.objs), Len(w2.objs)>>,
                        initial_cost_add, initial_cost_max)

(* Station.remove_qubit: a qubit the station does not track gives a        *)
(* warning only.                                                           *)
remove_qubit(w, st, q) ==
    IF q \in Range(w.objs[st].qubits)
    THEN [w EXCEPT !.objs[st].qubits = ListRemove(@, q)]
    ELSE w

(* Qubit.destroy: the station drops the qubit, then WorldObject.destroy. *)
Qubit_destroy(w, q) ==
    WorldObject_destroy(remove_qubit(w, w.objs[q].station, q), q)

(* destroy() of an object of any class. *)
destroy_object(w, o) ==
    IF w.objs[o].type = "Qubit" THEN Qubit_destroy(w, o)
    ELSE WorldObject_destroy(w, o)

(* Noise delegation of a qubit (quantum_objects/qubit.py) and the          *)
(* multi-qubit object that owns the state of its qubits                    *)
(* (quantum_objects/multi_qubit.py).  A noise channel is a name; a frozen  *)
(* channel is the channel with the arguments it was applied with; the      *)
(* state of a multi-qubit object is the list of the channels applied to    *)
(* its initial state, each with its arguments and the index of the qubit.  *)
(* A handler is either a function that reports success on the channels of  *)
(* a set, or the handler a MultiQubit generates for one of its qubits.     *)

MaxNoiseQubits == 2
MaxNoises == 2
MaxHandlers == 2

Channels == {"X", "Z"}

(* The apply_noise calls made: apply_noise(X) and apply_noise(Z, t=1). *)
NoiseCalls == {[channel |-> "X", args |-> <<>>],
               [channel |-> "Z", args |-> <<"t=1">>]}

(* freeze_noise_channel(noise_channel, *args, **kwargs) *)
freeze_noise_channel(noise_channel, args) ==
    [channel |-> noise_channel, args |-> args]

(* _always_fail_handler and a handler for the channel X only; the handler *)
(* of a MultiQubit succeeds on every channel, as _always_succeed_handler.  *)
FunctionHandlers ==
    {[kind |-> "function", accepts |-> a, owner |-> NoObject, qubit_index |-> 0] :
        a \in {{}, {"X"}}}

(* Mutant: the handler of every qubit acts on the first qubit. *)
generate_qubit_noise_handler_first(m, qubit_index) ==
    [kind |-> "MultiQubit", accepts |-> Channels, owner |-> m,
     qubit_index |-> 0]

(* MultiQubit._generate_qubit_noise_handler(qubit_index) *)
generate_qubit_noise_handler(m, qubit_index) ==
    [kind |-> "MultiQubit", accepts |-> Channels, owner |-> m,
     qubit_index |-> qubit_index]

(* The call noise_handler(noise_channel, *args, **kwargs) on the objects   *)
(* os: the objects afterwards and the reported handling_successful.  The   *)
(* handler of a MultiQubit applies the channel to the state of its owner   *)
(* at its qubit index and reports success.                                 *)
CallHandler(os, h, item) ==
    IF h.kind = "MultiQubit"
    THEN [objs |-> [os EXCEPT ![h.owner].state =
                       Append(@, [channel |-> item.channel,
                                  args |-> item.args,
                                  qubit_index |-> h.qubit_index])],
          handling_successful |-> TRUE]
    ELSE [objs |-> os, handling_successful |-> item.channel \in h.accepts]

(* The log entry of a handler call. *)
HandlerEntry(q, k, item, ok) ==
    [op |-> "handler", qubit |-> q, handler |-> k, item |-> item,
     handling_successful |-> ok]

(* Qubit._delegate_noise_handling from the k-th handler on: the handlers   *)
(* are tried in order until one reports success.                           *)
RECURSIVE DelegateFrom(_, _, _, _, _)
DelegateFrom(os, q, item, k, log) ==
    IF k > Len(os[q].noise_handlers)
    THEN [objs |-> os, handling_successful |-> FALSE, log |-> log]
    ELSE LET r == CallHandler(os, os[q].noise_handlers[k], item)
             log1 == Append(log, HandlerEntry(q, k, item,
                                              r.handling_successful))
         IN  IF r.handling_successful
             THEN [objs |-> r.objs, handling_successful |-> TRUE,
                   log |-> log1]
             ELSE DelegateFrom(r.objs, q, item, k + 1, log1)

(* Mutant: every handler is tried, also after one reported success. *)
RECURSIVE DelegateAllFrom(_, _, _, _, _, _)
DelegateAllFrom(os, q, item, k, log, ok) ==
    IF k > Len(os[q].noise_handlers)
    THEN [objs |-> os, handling_successful |-> ok, log |-> log]
    ELSE LET r == CallHandler(os, os[q].noise_handlers[k], item)
         IN  DelegateAllFrom(r.objs, q, item, k + 1,
                             Append(log, HandlerEntry(q, k, item,
                                                      r.handling_successful)),
                             ok \/ r.handling_successful)

delegate_noise_handling_all(os, q, item) ==
    DelegateAllFrom(os, q, item, 1, <<>>, FALSE)

(* Qubit._delegate_noise_handling *)
delegate_noise_handling(os, q, item) == DelegateFrom(os, q, item, 1, <<>>)

(* Qubit.apply_noise(noise_channel, *args, **kwargs); applied is the       *)
(* history of the channels applied to the qubit.                           *)
apply_noise(os, q, noise_channel, args) ==
    LET item == freeze_noise_channel(noise_channel, args)
        r == delegate_noise_handling(os, q, item)
    IN  [objs |-> [r.objs EXCEPT
                     ![q].unresolved_noises =
                         IF r.handling_successful THEN @ ELSE Append(@, item),
                     ![q].applied = Append(@, item)],
         log |-> r.log]

(* The loop of Qubit.add_noise_handler over list(self._unresolved_noises), *)
(* from its k-th item on: every item the handler handles is removed from   *)
(* the list of the qubit.                                                  *)
RECURSIVE OfferFrom(_, _, _, _, _, _)
OfferFrom(os, q, h, items, k, log) ==
    IF k > Len(items) THEN [objs |-> os, log |-> log]
    ELSE LET r == CallHandler(os, h, items[k])
             os1 == IF r.handling_successful
                    THEN [r.objs EXCEPT ![q].unresolved_noises =
                                            ListRemove(@, items[k])]
                    ELSE r.objs
         IN  OfferFrom(os1, q, h, items, k + 1,
                       Append(log, HandlerEntry(q, 0, items[k],
                                                r.handling_successful)))

(* Mutant: the loop runs over the list it removes from, so that the item   *)
(* after a removed one is skipped.                                         *)
RECURSIVE OfferLiveFrom(_, _, _, _, _)
OfferLiveFrom(os, q, h, k, log) ==
    IF k > Len(os[q].unresolved_noises) THEN [objs |-> os, log |-> log]
    ELSE LET item == os[q].unresolved_noises[k]
             r == CallHandler(os, h, item)
             os1 == IF r.handling_successful
                    THEN [r.objs EXCEPT ![q].unresolved_noises =
                                            ListRemove(@, item)]
                    ELSE r.objs
         IN  OfferLiveFrom(os1, q, h, k + 1,
                           Append(log, HandlerEntry(q, 0, item,
                                                    r.handling_successful)))

offer_unresolved_live(os, q, h) == OfferLiveFrom(os, q, h, 1, <<>>)

(* for unresolved_noise in list(self._unresolved_noises): ... *)
offer_unresolved(os, q, h) ==
    OfferFrom(os, q, h, os[q].unresolved_noises, 1, <<>>)

(* Qubit.add_noise_handler(noise_handler) *)
add_noise_handler(os, q, h) ==
    LET r == offer_unresolved(os, q, h)
    IN  [objs |-> [r.objs EXCEPT ![q].noise_handlers = Append(@, h)],
         log |-> r.log]

(* Qubit.remove_noise_handler(noise_handler): a handler that is not        *)
(* registered is ignored.                                                  *)
remove_noise_handler(os, q, h) ==
    IF h \in Range(os[q].noise_handlers)
    THEN [os EXCEPT ![q].noise_handlers = ListRemove(@, h)]
    ELSE os

(* WorldObject.add_destroy_callback *)
add_destroy_callback(os, o, callback_func) ==
    [os EXCEPT ![o].destroy_callbacks = Append(@, callback_func)]

(* Qubit.__init__(world) of quantum_objects/qubit.py *)
qubit_Qubit_init(w) == WorldObject_init(w, "Qubit", NoLabel)

(* The loop of MultiQubit.__init__ over enumerate(self._qubits), from the  *)
(* k-th qubit on, for the object m under construction; qubit_index counts  *)
(* from 0.                                                                 *)
RECURSIVE AttachFrom(_, _, _, _, _)
AttachFrom(os, m, qubits, k, log) ==
    IF k > Len(qubits) THEN [objs |-> os, log |-> log]
    ELSE LET q == qubits[k]
             os1 == [os EXCEPT ![q].higher_order_object = m]
             os2 == add_destroy_callback(os1, q,
                        [kind |-> "on_qubit_destroy", obj |-> m])
             r == add_noise_handler(os2, q,
                                    generate_qubit_noise_handler(m, k - 1))
         IN  AttachFrom(r.objs, m, qubits, k + 1, log \o r.log)

(* The type of a MultiQubit of n qubits. *)
MultiQubitType(n) == ToString(n) \o "-qubit MultiQubit"

(* MultiQubit.__init__(world, qubits, initial_state): the object is given  *)
(* its place before the loop, as the handlers refer to it, and is          *)
(* registered after the loop.                                              *)
MultiQubit_init(w, qubits) ==
    LET m == Len(w.objs) + 1
        w1 == WorldObject_init(w, MultiQubitType(Len(qubits)), NoLabel)
        os1 == [w1.objs EXCEPT ![m].qubits = qubits]
        r == AttachFrom(os1, m, qubits, 1, <<>>)
    IN  [world |-> [w1 EXCEPT !.objs = r.objs], log |-> r.log]

(* WorldObject.destroy of quantum_objects/world_object.py: the destroy      *)
(* callbacks of the object are called with it, in the order they were      *)
(* added, from the k-th on.  The callbacks are World.deregister_world_     *)
(* object, Station.remove_qubit and MultiQubit._on_qubit_destroy, which    *)
(* destroys the multi-qubit object: MultiQubit.destroy takes its noise     *)
(* handlers off its qubits that are in the world and runs its own destroy  *)
(* callbacks.                                                              *)
RECURSIVE RunDestroyCallbacks(_, _, _)
RECURSIVE MultiQubit_destroy(_, _)

(* for qubit in self._qubits: if qubit in qubit.world:                     *)
(*     qubit.remove_noise_handler(self._noise_handler_by_qubit[qubit])     *)
(* The dict _noise_handler_by_qubit of __init__ holds for a qubit the      *)
(* handler generated for its last place in self._qubits.                   *)
RECURSIVE RemoveHandlersFrom(_, _, _)
RemoveHandlersFrom(w, m, k) ==
    IF k > Len(w.objs[m].qubits) THEN w
    ELSE LET qubits == w.objs[m].qubits
             q == qubits[k]
             in_world == q \in UNION {Range(w.world_objects[ty]) :
                                         ty \in ObjectTypes}
             last_place == CHOOSE i \in 1 .. Len(qubits) :
                               /\ qubits[i] = q
                               /\ \A j \in i + 1 .. Len(qubits) : qubits[j] # q
         IN  RemoveHandlersFrom(
                 IF in_world
                 THEN [w EXCEPT !.objs = remove_noise_handler(
                           @, q, generate_qubit_noise_handler(m, last_place - 1))]
                 ELSE w,
                 m, k + 1)

MultiQubit_destroy(w, m) ==
    RunDestroyCallbacks(RemoveHandlersFrom(w, m, 1), m, 1)

(* Mutant: the object ignores the destruction of its qubits. *)
on_qubit_destroy_never(w, m, q) == w

(* MultiQubit._on_qubit_destroy(qubit) of the object m *)
on_qubit_destroy(w, m, q) ==
    IF q \in Range(w.objs[m].qubits) THEN MultiQubit_destroy(w, m) ELSE w

RunDestroyCallbacks(w, o, k) ==
    IF k > Len(w.objs[o].destroy_callbacks) THEN w
    ELSE LET callback_func == w.objs[o].destroy_callbacks[k]
             w1 == IF callback_func.kind = "deregister_world_object"
                   THEN deregister_world_object(w, o)
                   ELSE IF callback_func.kind = "remove_qubit"
                   THEN remove_qubit(w, callback_func.obj, o)
                   ELSE on_qubit_destroy(w, callback_func.obj, o)
         IN  RunDestroyCallbacks(w1, o, k + 1)

(* WorldObject.destroy, and MultiQubit.destroy for a multi-qubit object. *)
world_object_destroy(w, o) ==
    IF w.objs[o].type = MultiQubitType(Len(w.objs[o].qubits))
    THEN MultiQubit_destroy(w, o)
    ELSE RunDestroyCallbacks(w, o, 1)

(* Qubit._on_update_time: the time since the last update is applied with  *)
(* every time-dependent noise of the qubit, from the k-th on.              *)
RECURSIVE ApplyTimeDependentFrom(_, _, _, _)
ApplyTimeDependentFrom(os, q, time_interval, k) ==
    IF k > Len(os[q].time_dependent_noises) THEN os
    ELSE ApplyTimeDependentFrom(
             apply_noise(os, q, os[q].time_dependent_noises[k],
                         <<time_interval>>).objs,
             q, time_interval, k + 1)

Qubit_on_update_time(os, q, now) ==
    ApplyTimeDependentFrom(os, q, now - os[q].last_updated, 1)

(* MultiQubit._on_update_time: for qubit in self._qubits:                  *)
(* qubit.update_time(), from the k-th qubit on.                            *)
RECURSIVE UpdateQubitsFrom(_, _, _, _)
UpdateQubitsFrom(os, qubits, k, now) ==
    IF k > Len(qubits) THEN os
    ELSE UpdateQubitsFrom(
             [Qubit_on_update_time(os, qubits[k], now)
              EXCEPT ![qubits[k]].last_updated = now],
             qubits, k + 1, now)

(* Station.__init__(world, position, memory_cutoff_time=...) *)
station_Station_init(w, memory_cutoff_time) ==
    LET w1 == WorldObject_init(w, "Station", NoLabel)
    IN  [w1 EXCEPT !.objs[Len(w1.objs)].memory_cutoff_time =
                       memory_cutoff_time]

(* Station.register_qubit(qubit) *)
register_qubit(w, st, q) ==
    LET os1 == [w.objs EXCEPT ![st].qubits = Append(@, q),
                              ![q].station = st]
        os2 == add_destroy_callback(os1, q,
                                    [kind |-> "remove_qubit", obj |-> st])
    IN  [w EXCEPT !.objs =
            IF os2[st].memory_noise # NoNoise
            THEN [os2 EXCEPT ![q].time_dependent_noises =
                                 Append(@, os2[st].memory_noise)]
            ELSE os2]

(* Pair._on_update_time (quantum_objects.py): the memory noise of the      *)
(* station of each qubit, if it has one, is applied to the state at the    *)
(* index of the qubit with the time since the last update.                 *)
Pair_on_update_time(os, pair, now) ==
    LET time_interval == now - os[pair].last_updated
        Applied(qubit_index) ==
            LET map_func ==
                    os[os[os[pair].qubits[qubit_index + 1]].station].memory_noise
            IN  IF map_func # NoNoise
                THEN <<[map |-> map_func, qubit_index |-> qubit_index,
                        t |-> time_interval]>>
                ELSE <<>>
    IN  [os EXCEPT ![pair].state = @ \o Applied(0) \o Applied(1)]

(* Mutant: the time of the update is not kept. *)
update_time_forgets(os, o, now) == Qubit_on_update_time(os, o, now)

(* WorldObject.update_time(): _on_update_time, then last_updated is the    *)
(* current time.  For a multi-qubit object _on_update_time updates its     *)
(* qubits, for a pair it applies the memory noise of the stations, for any *)
(* other object but a qubit it does nothing.                               *)
update_time(os, o, now) ==
    [(IF os[o].type = "Qubit" THEN Qubit_on_update_time(os, o, now)
      ELSE IF os[o].type = "Pair" THEN Pair_on_update_time(os, o, now)
      ELSE IF os[o].type = MultiQubitType(Len(os[o].qubits))
      THEN UpdateQubitsFrom(os, os[o].qubits, 1, now)
      ELSE os)
     EXCEPT ![o].last_updated = now]

(* for pair in pairs: pair.update_time(), from the k-th pair on. *)
RECURSIVE UpdatePairsFrom(_, _, _)
UpdatePairsFrom(w, pairs, k) ==
    IF k > Len(pairs) THEN w
    ELSE UpdatePairsFrom(
             [w EXCEPT !.objs = update_time(@, pairs[k], w.current_time)],
             pairs, k + 1)

NoEffect(w) ==
    [world |-> w, raised |-> FALSE,
     returned |-> [output_pair |-> NoObject, source |-> NoObject,
                   swapping_station |-> NoObject]]

(* for qubit in qubit_pair.qubits: qubit.destroy() *)
RECURSIVE DestroyQubitsFrom(_, _, _)
DestroyQubitsFrom(w, qubits, k) ==
    IF k > Len(qubits) THEN w
    ELSE DestroyQubitsFrom(world_object_destroy(w, qubits[k]), qubits, k + 1)

(* DiscardQubitEvent._main_effect, which returns {}; the qubit is the      *)
(* required object.                                                        *)
DiscardQubitEvent_main_effect(w, ev) ==
    LET qubit_pair == w.objs[ev.required_objects[1]].higher_order_object
    IN  [world |-> IF qubit_pair # NoObject
                   THEN world_object_destroy(
                            DestroyQubitsFrom(w, w.objs[qubit_pair].qubits, 1),
                            qubit_pair)
                   ELSE world_object_destroy(w, ev.required_objects[1]),
         raised |-> FALSE, returned |-> NoEffect(w).returned]

(* SourceEvent._main_effect: source.generate_pair(self.initial_state,      *)
(* *self.generation_args, **self.generation_kwargs)                        *)
SourceEvent_main_effect(w, ev) ==
    LET w1 == generate_pair(w, ev.source,
                            ev.generation_kwargs.initial_cost_add,
                            ev.generation_kwargs.initial_cost_max)
    IN  [world |-> w1, raised |-> FALSE,
         returned |-> [output_pair |-> Len(w1.objs), source |-> ev.source,
                       swapping_station |-> NoObject]]

(* Mutant: the input pairs are not destroyed. *)
SwappingCleanupQubitsOnly(w, swapping_qubits, pair1, pair2) ==
    Qubit_destroy(Qubit_destroy(w, swapping_qubits[1]), swapping_qubits[2])

(* The cleanup of EntanglementSwappingEvent._main_effect. *)
SwappingCleanup(w, swapping_qubits, pair1, pair2) ==
    LET w1 == Qubit_destroy(w, swapping_qubits[1])
        w2 == Qubit_destroy(w1, swapping_qubits[2])
        w3 == WorldObject_destroy(w2, pair1)
    IN  WorldObject_destroy(w3, pair2)

(* The Bell measurement of EntanglementSwappingEvent._main_effect on the   *)
(* four-qubit state of the two pairs, as the list of the maps applied to   *)
(* it: the channel before on four or on the two middle qubits, then the    *)
(* replacing map if there is one and the projection on phiplus otherwise,  *)
(* then the channel after.                                                 *)
BellMeasurement(noise_model) ==
    (IF noise_model.channel_before = NoChannel THEN <<>>
     ELSE <<[map |-> "channel_before",
             n_qubits |-> noise_model.channel_before]>>)
    \o (IF noise_model.map_replace THEN <<[map |-> "map_replace", n_qubits |-> 4]>>
        ELSE <<[map |-> "projection", n_qubits |-> 4]>>)
    \o (IF noise_model.channel_after = NoChannel THEN <<>>
        ELSE <<[map |-> "channel_after",
                n_qubits |-> noise_model.channel_after]>>)

(* Mutant: a channel before of any arity is accepted. *)
BellMeasurementErrorAfterOnly(noise_model) ==
    IF noise_model.channel_after \notin {NoChannel, 2} THEN "AssertionError"
    ELSE "none"

(* What the Bell measurement raises: ValueError for a channel before that  *)
(* is neither a 2- nor a 4-qubit channel, AssertionError for a channel     *)
(* after that is not a 2-qubit channel, both before the new pair exists.   *)
BellMeasurementError(noise_model) ==
    IF noise_model.channel_before \notin {NoChannel, 2, 4} THEN "ValueError"
    ELSE IF noise_model.channel_after \notin {NoChannel, 2}
    THEN "AssertionError"
    ELSE "none"

(* Pair(world=..., qubits=qubits, initial_state=state): no initial costs. *)
Pair_init_state(w, qubits, initial_state) ==
    LET w1 == Pair_init_costs(w, qubits, NoCost, NoCost)
    IN  [w1 EXCEPT !.objs[Len(w1.objs)].state = initial_state]

(* EntanglementSwappingEvent._main_effect: the qubits of the pairs that    *)
(* are at the station are the swapping qubits, the others the leftover     *)
(* qubits; the two asserts raise AssertionError before anything changed,   *)
(* then the two pairs are updated to the current time.                     *)
SwappingEvent_main_effect(w, ev) ==
    LET pair1 == ev.pairs[1]
        pair2 == ev.pairs[2]
        AtStation(q) == q \in Range(w.objs[ev.station].qubits)
        Elsewhere(q) == ~AtStation(q)
        swapping1 == SelectSeq(w.objs[pair1].qubits, AtStation)
        swapping_qubits == swapping1 \o SelectSeq(w.objs[pair2].qubits, AtStation)
        leftover_qubits == SelectSeq(w.objs[pair1].qubits, Elsewhere)
                           \o SelectSeq(w.objs[pair2].qubits, Elsewhere)
        noise_model == w.objs[ev.station].BSM_noise_model
        updated == UpdatePairsFrom(w, ev.pairs, 1)
    IN  IF Len(swapping1) # 1 \/ Len(swapping_qubits) # 2
        THEN [NoEffect(w) EXCEPT !.raised = TRUE]
        ELSE IF BellMeasurementError(noise_model) # "none"
        THEN [world |-> updated, raised |-> TRUE,
              error |-> BellMeasurementError(noise_model),
              returned |-> NoEffect(w).returned]
        ELSE LET w1 == Pair_init_state(updated, leftover_qubits,
                                       BellMeasurement(noise_model))
             IN  [world |-> SwappingCleanup(w1, swapping_qubits, pair1, pair2),
                  raised |-> FALSE,
                  returned |-> [output_pair |-> Len(w1.objs),
                                source |-> NoObject,
                                swapping_station |-> ev.station]]

(* Mutant: only the first listed object is unblocked. *)
UnblockEvent_main_effect_first(w, ev) ==
    [world |-> [w EXCEPT !.objs =
                   [o \in 1 .. Len(w.objs) |->
                       IF ev.required_objects # <<>>
                          /\ o = ev.required_objects[1]
                       THEN [w.objs[o] EXCEPT !.is_blocked = FALSE]
                       ELSE w.objs[o]]],
     raised |-> FALSE,
     returned |-> [unblocked_objects |-> ev.required_objects]]

(* UnblockEvent._main_effect; quantum_objects are the required objects. *)
UnblockEvent_main_effect(w, ev) ==
    [world |-> [w EXCEPT !.objs =
                   [o \in 1 .. Len(w.objs) |->
                       IF o \in Range(ev.required_objects)
                       THEN [w.objs[o] EXCEPT !.is_blocked = FALSE]
                       ELSE w.objs[o]]],
     raised |-> FALSE,
     returned |-> [unblocked_objects |-> ev.required_objects]]

----------------------------------------------------------------------------
(* Events that require world objects: Event.__init__, Event.add_callback,  *)
(* Event.resolve as EventQueue.resolve_next_event calls it, with callbacks *)
(* that record their call and callbacks that schedule a follow-up event.   *)
(* evs keeps every event constructed, an event being its index in evs; the *)
(* queue holds the events' entries; trace is the log of the latest call.   *)

(* The number of events the user constructs. *)
MaxWorldEvents == 1

(* What a callback does with the result dict: "record" notes the call,     *)
(* "schedule" notes it and adds an UnblockEvent at the current time.       *)
CallbackKinds == {"record", "schedule"}

(* required_objects handed to the constructor. *)
RequiredChoices == {<<1>>, <<1, 2>>}

(* callback_functions handed to the constructor. *)
ConstructionCallbacks == {<<>>, <<"record">>}

(* The number of objects, or of events, of a type in a list. *)
NumberOfType(os, ty) == Cardinality({o \in 1 .. Len(os) : os[o].type = ty})

EmptyWorld ==
    [world_objects |-> [ty \in ObjectTypes |-> <<>>],
     label_counters |-> [ty \in ObjectTypes |-> 0],
     objs |-> <<>>, current_time |-> 0]

(* setUp of the event tests: a world with two plain objects. *)
InitEvents ==
    /\ InitQueue
    /\ LET w == WorldObject_init(
                    WorldObject_init(EmptyWorld, "DummyObject", NoLabel),
                    "DummyObject", NoLabel)
       IN  /\ world_objects = w.world_objects
           /\ label_counters = w.label_counters
           /\ objs = w.objs
    /\ evs = <<>>
    /\ trace = <<>>

(* The entry of an event in the queue. *)
QueueEntry(ev) ==
    [id |-> ev.id, time |-> ev.time, priority |-> ev.priority,
     type |-> ev.type, required_objects |-> ev.required_objects,
     ignore_blocked |-> ev.ignore_blocked]

(* The index of the first required object that is not in the world, one    *)
(* past the end if there is none: where Event.__init__'s assert fails.     *)
FirstMissing(req, in_world) ==
    IF \E k \in 1 .. Len(req) : req[k] \notin in_world
    THEN CHOOSE k \in 1 .. Len(req) :
             /\ req[k] \notin in_world
             /\ \A j \in 1 .. k - 1 : req[j] \in in_world
    ELSE Len(req) + 1

(* required_object.required_by_events += [self], object by object. *)
RECURSIVE AppendRequiredBy(_, _, _)
AppendRequiredBy(os, req, id) ==
    IF req = <<>> THEN os
    ELSE AppendRequiredBy(
             [os EXCEPT ![Head(req)].required_by_events = Append(@, id)],
             Tail(req), id)

(* required_by_events.remove(self), object by object; list.remove raises   *)
(* ValueError when the event is not listed, which ends the loop.           *)
RECURSIVE RemoveRequiredBy(_, _, _)
RemoveRequiredBy(os, req, id) ==
    IF req = <<>> THEN [objs |-> os, raised |-> FALSE]
    ELSE LET o == Head(req)
         IN  IF id \in Range(os[o].required_by_events)
             THEN RemoveRequiredBy(
                      [os EXCEPT ![o].required_by_events = ListRemove(@, id)],
                      Tail(req), id)
             ELSE [objs |-> os, raised |-> TRUE]

(* Mutant: objects that are no longer in the world are passed over. *)
deregister_from_objects_in_world(os, req, id, in_world) ==
    LET InWorld(o) == o \in in_world
    IN  RemoveRequiredBy(os, SelectSeq(req, InWorld), id)

(* Event._deregister_from_objects: every required object, in the world or  *)
(* not.                                                                    *)
deregister_from_objects(os, req, id, in_world) ==
    RemoveRequiredBy(os, req, id)

(* Event.__init__ with its _return_dict (event, event_type and             *)
(* resolve_successful); called counts the calls of each                    *)
(* callback, fired tells whether resolve was entered.                      *)
NewEventRecord(id, t, ty, priority, req, ignore_blocked, callbacks, ok) ==
    [id |-> id, time |-> t, priority |-> priority, type |-> ty,
     required_objects |-> req, ignore_blocked |-> ignore_blocked,
     callback_functions |-> callbacks,
     called |-> [k \in 1 .. Len(callbacks) |-> 0],
     event |-> id, event_type |-> ty,
     resolve_successful |-> TRUE, constructed |-> ok, fired |-> FALSE,
     source |-> NoObject, pairs |-> <<>>, station |-> NoObject,
     resolve_function |-> "none", communication_time |-> 0,
     protocol |-> "none", p_suc_reached |-> FALSE,
     generation_kwargs |-> [initial_cost_add |-> NoCost,
                            initial_cost_max |-> NoCost],
     returned |-> NoEffect(EmptyWorld).returned]

(* The events EntanglementPurificationEvent._main_effect constructs:       *)
(* UnblockEvent(time=self.time + self.communication_time,                  *)
(*     quantum_objects=[output_pair, output_pair.qubit1,                   *)
(*                      output_pair.qubit2])                               *)
PurificationUnblockEvent(w, ev, output_pair) ==
    NewEventRecord(0, ev.time + ev.communication_time, "UnblockEvent",
                   UnblockPriority,
                   <<output_pair>> \o w.objs[output_pair].qubits,
                   TRUE, <<>>, TRUE)

(* GenericEvent(time=self.time + self.communication_time,                  *)
(*     resolve_function=destroy_function,                                  *)
(*     required_objects=[output_pair], priority=0, ignore_blocked=True)    *)
PurificationDestroyEvent(w, ev, output_pair) ==
    [NewEventRecord(0, ev.time + ev.communication_time, "GenericEvent",
                    0, <<output_pair>>, TRUE, <<>>, TRUE)
        EXCEPT !.resolve_function = "destroy_function"]

(* for pair in self.pairs[1:]: pair.qubits[0].destroy();                   *)
(*     pair.qubits[1].destroy(); pair.destroy()                            *)
RECURSIVE DestroyPairsFrom(_, _, _)
DestroyPairsFrom(w, pairs, k) ==
    IF k > Len(pairs) THEN w
    ELSE LET pair == pairs[k]
             w1 == Qubit_destroy(w, w.objs[pair].qubits[1])
             w2 == Qubit_destroy(w1, w.objs[pair].qubits[2])
         IN  DestroyPairsFrom(WorldObject_destroy(w2, pair), pairs, k + 1)

(* output_pair.is_blocked = True; output_pair.qubit1.is_blocked = True;    *)
(* output_pair.qubit2.is_blocked = True                                    *)
PurificationBlock(w, output_pair) ==
    [w EXCEPT !.objs[output_pair].is_blocked = TRUE,
              !.objs[w.objs[output_pair].qubits[1]].is_blocked = TRUE,
              !.objs[w.objs[output_pair].qubits[2]].is_blocked = TRUE]

(* The protocols of an EntanglementPurificationEvent: protocol="dejmps"    *)
(* is dejmps_protocol, a callable is taken as it is.                       *)
Protocols == {"dejmps_protocol", "custom_protocol"}

(* What self.protocol(rho) raises on the tensor product of the states of   *)
(* the pairs: dejmps_protocol multiplies rho with its 16x16 operator, and  *)
(* np.dot raises ValueError unless rho is a four-qubit state; a callable   *)
(* written for any number of pairs raises nothing.                         *)
ProtocolError(protocol, pairs) ==
    IF protocol = "dejmps_protocol" /\ Len(pairs) # 2 THEN "ValueError"
    ELSE "none"

(* EntanglementPurificationEvent._main_effect: every pair is updated to    *)
(* the current time, the protocol gives the state of the first pair,       *)
(* which is then blocked with its qubits, and the others are destroyed;    *)
(* p_suc_reached is the outcome of np.random.random() <= p_suc.  The       *)
(* follow-up event is constructed and added after that (scheduled).  The   *)
(* state is the list of the maps applied: the protocol acts on rho, the    *)
(* tensor product of the states of the pairs, and its output is the state  *)
(* of the first pair from then on.                                         *)
EntanglementPurificationEvent_main_effect(w, ev) ==
    LET output_pair == ev.pairs[1]
        updated == UpdatePairsFrom(w, ev.pairs, 1)
        state == Append(updated.objs[output_pair].state,
                        [map |-> ev.protocol,
                         n_qubits |-> 2 * Len(ev.pairs)])
        w1 == PurificationBlock(
                  [updated EXCEPT !.objs[output_pair].state = state],
                  output_pair)
        w2 == DestroyPairsFrom(w1, ev.pairs, 2)
    IN  IF ProtocolError(ev.protocol, ev.pairs) # "none"
        THEN [world |-> updated, raised |-> TRUE,
              error |-> ProtocolError(ev.protocol, ev.pairs),
              returned |-> NoEffect(w).returned]
        ELSE [world |-> w2, raised |-> FALSE,
              returned |-> [output_pair |-> output_pair,
                            is_successful |-> ev.p_suc_reached],
              scheduled |->
                  IF ev.p_suc_reached
                  THEN <<PurificationUnblockEvent(w2, ev, output_pair)>>
                  ELSE <<PurificationDestroyEvent(w2, ev, output_pair)>>]

(* destroy_function of the event of a failed purification. *)
destroy_function(w, ev) ==
    LET output_pair == ev.required_objects[1]
        w1 == WorldObject_destroy(w, output_pair)
        w2 == Qubit_destroy(w1, w.objs[output_pair].qubits[1])
    IN  [world |-> Qubit_destroy(w2, w.objs[output_pair].qubits[2]),
         raised |-> FALSE,
         returned |-> [destroyed_objects |->
                           <<output_pair>> \o w.objs[output_pair].qubits]]

(* GenericEvent._main_effect: the value the wrapped function returns, its  *)
(* arguments left out.                                                     *)
GenericEvent_main_effect(w, ev) ==
    [world |-> w, raised |-> FALSE,
     returned |-> resolve_function_return(ev.resolve_function)]

(* Event._main_effect of the class of the event.  The effect of the plain  *)
(* test event does nothing.                                                *)
main_effect(w, ev) ==
    IF ev.type = "SourceEvent" THEN SourceEvent_main_effect(w, ev)
    ELSE IF ev.type = "EntanglementSwappingEvent"
    THEN SwappingEvent_main_effect(w, ev)
    ELSE IF ev.type = "UnblockEvent" THEN UnblockEvent_main_effect(w, ev)
    ELSE IF ev.type = "DiscardQubitEvent"
    THEN DiscardQubitEvent_main_effect(w, ev)
    ELSE IF ev.type = "EntanglementPurificationEvent"
    THEN EntanglementPurificationEvent_main_effect(w, ev)
    ELSE IF ev.resolve_function = "destroy_function"
    THEN destroy_function(w, ev)
    ELSE IF ev.resolve_function \in ResolveFunctions
    THEN GenericEvent_main_effect(w, ev)
    ELSE NoEffect(w)

(* Event.__init__ of the event ev followed by event_queue.add_event(ev).   *)
(* The assert of Event.__init__ fails at the first required object that is *)
(* not in the world, after the objects before it have listed the event.    *)
construct_and_add(ev0) ==
    LET req == ev0.required_objects
        n == FirstMissing(req, WorldObjects)
        ok == n > Len(req)
        ev == [ev0 EXCEPT !.constructed = ok]
    IN  /\ objs' = AppendRequiredBy(objs, SubSeq(req, 1, n - 1), ev.id)
        /\ evs' = Append(evs, ev)
        /\ IF ok
           THEN /\ queue' = insert_event(queue, QueueEntry(ev))
                /\ stats' = [stats EXCEPT ![ev.type].scheduled = @ + 1]
           ELSE UNCHANGED <<queue, stats>>
        /\ UNCHANGED <<world_objects, label_counters, trace>>
        /\ UNCHANGED <<current_time, pc, event, target, base, added,
                       resolved, last>>

(* event_queue.add_event(DummyEvent(time=now, required_objects=req, ...)) *)
NewEvent(req, ignore_blocked, callbacks) ==
    /\ NumberOfType(evs, "GenericEvent") < MaxWorldEvents
    /\ construct_and_add(
           NewEventRecord(Len(evs) + 1, current_time, "GenericEvent",
                          DefaultPriorityOf("GenericEvent"), req,
                          ignore_blocked, callbacks, TRUE))

(* Event.add_callback on an event that has not fired and whose callbacks  *)
(* are those of a construction.                                            *)
add_callback(e, kind) ==
    /\ evs[e].constructed /\ ~evs[e].fired
    /\ evs[e].callback_functions \in ConstructionCallbacks
    /\ evs' = [evs EXCEPT ![e].callback_functions = Append(@, kind),
                          ![e].called = Append(@, 0)]
    /\ UNCHANGED <<world_objects, label_counters, objs, trace, qvars>>

(* world_object.is_blocked = True *)
SetBlocked(o) ==
    /\ ~objs[o].is_blocked
    /\ objs' = [objs EXCEPT ![o].is_blocked = TRUE]
    /\ UNCHANGED <<world_objects, label_counters, evs, trace, qvars>>

(* The follow-up event of a "schedule" callback:                           *)
(* event_queue.add_event(UnblockEvent(time=now, quantum_objects=[])).      *)
ScheduleFollowUp(S, now) ==
         LET b == NewEventRecord(Len(S.evs) + 1, now, "UnblockEvent",
                                 DefaultPriorityOf("UnblockEvent"), NoObjects,
                                 DefaultIgnoreBlockedOf("UnblockEvent"),
                                 <<>>, TRUE)
         IN  [S EXCEPT !.evs = Append(@, b),
                       !.queue = insert_event(@, QueueEntry(b)),
                       !.stats[b.type].scheduled = @ + 1]

(* for callback_func in self._callback_functions:                          *)
(*     callback_func(self._return_dict)                                    *)
RECURSIVE RunCallbacks(_, _, _, _)
RunCallbacks(S, e, k, now) ==
    IF k > Len(S.evs[e].callback_functions) THEN S
    ELSE LET S1 == [S EXCEPT
                      !.log = Append(@, [op |-> "callback", ev |-> e,
                                         cb |-> k,
                                         result |-> S.evs[e].resolve_successful]),
                      !.evs[e].called[k] = @ + 1]
             S2 == IF S.evs[e].callback_functions[k] = "schedule"
                   THEN ScheduleFollowUp(S1, now) ELSE S1
         IN  RunCallbacks(S2, e, k + 1, now)

(* The first entry of the log of a resolution: the event, what held of its *)
(* required objects when resolve was entered, and whether the validity     *)
(* check gave its warning.                                                 *)
ResolveEntry(head) ==
    [op |-> "resolve", ev |-> head.id,
     missing |-> \E k \in 1 .. Len(head.required_objects) :
                     head.required_objects[k] \notin WorldObjects,
     blocked |-> \E k \in 1 .. Len(head.required_objects) :
                     head.required_objects[k] \in BlockedObjects,
     ignore_blocked |-> head.ignore_blocked,
     callbacks |-> Len(evs[head.id].callback_functions),
     warned |-> blocked_access_warned(head, WorldObjects, BlockedObjects),
     again |-> evs[head.id].fired]

(* if self._check_event_is_valid(): main_return_dict = self._main_effect() *)
EffectRuns(valid) == valid

(* The events an effect constructed and added to the queue, numbered after *)
(* the n events constructed before; most effects add none.                 *)
ScheduledBy(effect, n) ==
    IF "scheduled" \in DOMAIN effect
    THEN [k \in 1 .. Len(effect.scheduled) |->
             [effect.scheduled[k] EXCEPT !.id = n + k, !.event = n + k]]
    ELSE <<>>

(* Event.__init__ of the events an effect constructed: each is listed by   *)
(* its required objects, up to the first that is not in the world, where   *)
(* the assert raises and leaves the effect.  evs are the events with       *)
(* whether their construction ended.                                       *)
RECURSIVE RegisterScheduled(_, _, _)
RegisterScheduled(os, scheduled, in_world) ==
    IF scheduled = <<>> THEN [objs |-> os, evs |-> <<>>, raised |-> FALSE]
    ELSE LET ev == Head(scheduled)
             n == FirstMissing(ev.required_objects, in_world)
             os1 == AppendRequiredBy(
                        os, SubSeq(ev.required_objects, 1, n - 1), ev.id)
         IN  IF n > Len(ev.required_objects)
             THEN LET rest == RegisterScheduled(os1, Tail(scheduled),
                                                in_world)
                  IN  [rest EXCEPT !.evs = <<ev>> \o @]
             ELSE [objs |-> os1,
                   evs |-> <<[ev EXCEPT !.constructed = FALSE]>>,
                   raised |-> TRUE]

(* self.event_queue.add_event(event) for the events an effect constructed: *)
(* the queue and the counters afterwards.                                  *)
RECURSIVE AddScheduled(_, _)
AddScheduled(Q, scheduled) ==
    IF scheduled = <<>> THEN Q
    ELSE AddScheduled(
             [queue |-> insert_event(Q.queue, QueueEntry(Head(scheduled))),
              stats |-> [Q.stats EXCEPT
                           ![Head(scheduled).type].scheduled = @ + 1]],
             Tail(scheduled))

(* The rest of Event.resolve up to the callbacks, after the effect ran or  *)
(* was skipped: the update of the result and the deregistration.  An       *)
(* exception of the effect, of the construction of an event by the effect  *)
(* or of the deregistration leaves resolve at that point.                  *)
AfterEffect(head, valid, effect, log) ==
    LET e == head.id
        updated == IF valid THEN return_dict_update(evs[e], effect.returned)
                   ELSE [evs[e] EXCEPT !.resolve_successful = FALSE]
        rs == updated.resolve_successful
        in_world == UNION {Range(effect.world.world_objects[ty]) :
                               ty \in ObjectTypes}
        construction == RegisterScheduled(effect.world.objs,
                                          ScheduledBy(effect, Len(evs)),
                                          in_world)
        Constructed(ev) == ev.constructed
        scheduled == SelectSeq(construction.evs, Constructed)
    IN  IF effect.raised
        THEN [world |-> effect.world, raised |-> TRUE,
              error |-> IF "error" \in DOMAIN effect THEN effect.error
                        ELSE "AssertionError",
              evs |-> [evs EXCEPT ![e].fired = TRUE],
              scheduled |-> <<>>, log |-> log, rs |-> rs]
        ELSE IF construction.raised
        THEN [world |-> [effect.world EXCEPT !.objs = construction.objs],
              raised |-> TRUE, error |-> "AssertionError",
              evs |-> [evs EXCEPT ![e].fired = TRUE] \o construction.evs,
              scheduled |-> scheduled, log |-> log, rs |-> rs]
        ELSE Bind(deregister_from_objects(
                      construction.objs,
                      head.required_objects, e, WorldObjects),
                  LAMBDA dereg :
                      [world |-> [effect.world EXCEPT !.objs = dereg.objs],
                       raised |-> dereg.raised, error |-> "ValueError",
                       evs |-> [evs EXCEPT
                                  ![e].resolve_successful = rs,
                                  ![e].event = updated.event,
                                  ![e].event_type = updated.event_type,
                                  ![e].returned =
                                      IF valid THEN effect.returned ELSE @,
                                  ![e].fired = TRUE] \o scheduled,
                       scheduled |-> scheduled, log |-> log, rs |-> rs])

(* Event.resolve up to the callbacks: the validity check, then the effect  *)
(* if the event is valid.                                                  *)
ResolveBody(head) ==
    Bind(check_event_is_valid(head, WorldObjects, BlockedObjects),
         LAMBDA valid :
             Bind(IF EffectRuns(valid)
                  THEN main_effect([TheWorld EXCEPT !.current_time = head.time],
                                   evs[head.id])
                  ELSE NoEffect(TheWorld),
                  LAMBDA effect :
                      AfterEffect(head, valid, effect,
                                  <<ResolveEntry(head)>>
                                  \o (IF EffectRuns(valid)
                                      THEN <<[op |-> "effect",
                                              ev |-> head.id]>>
                                      ELSE <<>>))))

(* Lines 872-876 of resolve_next_event after event.resolve() returned, and *)
(* the log of the call.                                                    *)
ResolveReturn(head, body, S) ==
    /\ evs' = S.evs
    /\ queue' = DropFirst(S.queue)
    /\ stats' = [S.stats EXCEPT
                   ![head.type].resolved = @ + 1,
                   ![head.type].resolved_successfully =
                       IF body.rs THEN @ + 1 ELSE @]
    /\ trace' = Append(S.log, [op |-> "return", ev |-> head.id,
                               result |-> body.rs])

(* The body of EventQueue.resolve_next_event on a queue of such events:    *)
(* the whole call, Event.resolve with its callbacks included.              *)
ResolveNextEvent ==
    IF queue = <<>>
    THEN /\ trace' = <<[op |-> "raise", ev |-> 0, error |-> "IndexError"]>>
         /\ UNCHANGED <<queue, current_time, stats, world_objects,
                        label_counters, objs, evs>>
    ELSE \E body \in {ResolveBody(queue[1])},
            Q \in {AddScheduled([queue |-> queue, stats |-> stats],
                                ResolveBody(queue[1]).scheduled)} :
             /\ current_time' = queue[1].time
             /\ SetWorld(body.world)
             /\ IF body.raised
                THEN /\ evs' = body.evs
                     /\ trace' = Append(body.log,
                                        [op |-> "raise",
                                         ev |-> queue[1].id,
                                         error |-> body.error])
                     /\ queue' = Q.queue
                     /\ stats' = Q.stats
                ELSE \E S \in {RunCallbacks(
                                  [queue |-> Q.queue, evs |-> body.evs,
                                   stats |-> Q.stats,
                                   log |-> Append(body.log,
                                                  [op |-> "deregister",
                                                   ev |-> queue[1].id])],
                                  queue[1].id, 1, queue[1].time)} :
                         ResolveReturn(queue[1], body, S)

(* The user's call of EventQueue.resolve_next_event. *)
resolve_next_event ==
    /\ pc = "idle" /\ target = NoTarget
    /\ ResolveNextEvent
    /\ UNCHANGED <<pc, event, target, base, added, resolved, last>>

EventsNew ==
    \E req \in RequiredChoices, ignore_blocked \in BOOLEAN,
       callbacks \in ConstructionCallbacks :
        NewEvent(req, ignore_blocked, callbacks)

EventsAddCallback ==
    \E e \in 1 .. Len(evs), kind \in CallbackKinds : add_callback(e, kind)

EventsBlock == \E o \in 1 .. Len(objs) : SetBlocked(o)

(* WorldObject.destroy of an object that is in the world. *)
destroy(o) ==
    /\ SetWorld(destroy_object(TheWorld, o))
    /\ UNCHANGED <<evs, trace, qvars>>

EventsDestroy == \E o \in WorldObjects : destroy(o)

NextEvents ==
    \/ EventsNew
    \/ EventsAddCallback
    \/ EventsBlock
    \/ EventsDestroy
    \/ resolve_next_event

SpecEvents == InitEvents /\ [][NextEvents]_vars

----------------------------------------------------------------------------
DefaultLabelled(os) == {o \in 1 .. Len(os) : os[o].label_arg = NoLabel}

Removal == {"destroy", "deregister_world_object"}

(* C16: an object constructed without a label gets '<type> <n>', n being   *)
(* the number of objects of its type registered so far, itself included;   *)
(* the counter of a type counts every object of the type ever registered,  *)
(* custom-labelled and destroyed ones included, and never decreases; no    *)
(* two default labels are the same.                                        *)
C16_DefaultLabels ==
    [][ /\ \A ty \in ObjectTypes :
              /\ label_counters'[ty] >= label_counters[ty]
              /\ label_counters'[ty] = NumberOfType(objs', ty)
        /\ Len(objs') = Len(objs) + 1 =>
              LET o == Len(objs')
                  ty == objs'[o].type
              IN  /\ label_counters'[ty] = label_counters[ty] + 1
                  /\ objs'[o].label_arg = NoLabel =>
                         objs'[o].label
                             = ty \o " " \o ToString(NumberOfType(objs', ty))
        /\ \A o1, o2 \in DefaultLabelled(objs') :
              o1 # o2 => objs'[o1].label # objs'[o2].label
      ]_vars

(* A destroyed station, a custom-labelled station, then "Station 3". *)
C16_Witness ==
    /\ Len(objs) = 3
    /\ objs[1].type = "Station" /\ 1 \notin WorldObjects
    /\ objs[2].type = "Station" /\ objs[2].label = "The Great Station"
    /\ objs[3].label_arg = NoLabel /\ objs[3].label = "Station 3"
    /\ label_counters["Station"] = 3

(* C17 as stated: no two objects ever registered carry the same label.     *)
C17_LabelsUnique ==
    \A o1, o2 \in 1 .. Len(objs) : o1 # o2 => objs[o1].label # objs[o2].label

(* C17, amended: no two objects registered without a custom label carry    *)
(* the same label; a label given by the caller is stored as given.         *)
C17_DefaultLabelsUnique ==
    /\ \A o1, o2 \in DefaultLabelled(objs) :
          o1 # o2 => objs[o1].label # objs[o2].label
    /\ \A o \in 1 .. Len(objs) :
          objs[o].label_arg # NoLabel => objs[o].label = objs[o].label_arg

(* A caller's "Station 2" next to the default "Station 2", and a further   *)
(* default label that differs from it.                                     *)
C17_Witness ==
    /\ Len(objs) = 3
    /\ objs[1].label_arg = "Station 2"
    /\ objs[2].label_arg = NoLabel /\ objs[2].label = objs[1].label
    /\ objs[3].label_arg = NoLabel /\ objs[3].type = "Station"
    /\ objs[3].label # objs[2].label

(* C18: an object is in the world from its construction on, leaves it with *)
(* the first destroy or deregister_world_object made on it and is never in *)
(* it again; a destroy or deregister of an object that is not in the world *)
(* raises nothing and changes no bucket and no counter; no call removes an *)
(* object other than its own.                                              *)
C18_RegistrationLifetime ==
    [][ /\ Len(objs') > Len(objs) => Len(objs') \in WorldObjects'
        /\ \A o \in 1 .. Len(objs) :
              /\ o \notin WorldObjects => o \notin WorldObjects'
              /\ (o \in WorldObjects /\ o \notin WorldObjects') =>
                     trace'[1].op \in Removal /\ trace'[1].obj = o
              /\ (trace'[1].op \in Removal /\ trace'[1].obj = o) =>
                     /\ o \notin WorldObjects'
                     /\ ~trace'[1].raised
                     /\ o \notin WorldObjects =>
                            /\ world_objects' = world_objects
                            /\ label_counters' = label_counters
      ]_vars

(* A destroy of an object that had left the world before, next to a second *)
(* object of its type that is still registered.                            *)
C18_Witness ==
    /\ Len(objs) >= 2
    /\ trace # <<>>
    /\ trace[1].op = "destroy" /\ trace[1].obj = 1 /\ ~trace[1].present
    /\ objs[2].type = objs[1].type
    /\ 1 \notin WorldObjects /\ 2 \in WorldObjects

----------------------------------------------------------------------------
(* A repeater link: stations A, Mid and B, a source for A and Mid and a    *)
(* source for Mid and B.  SourceEvents and EntanglementSwappingEvents,     *)
(* with or without a callback, are scheduled at the current time and       *)
(* resolved through the queue; stations and sources may be destroyed at    *)
(* any moment.                                                             *)

MaxRepeaterEvents == 3

(* Number of stations and sources the user destroys in the repeater runs. *)
MaxDestroyed == 1

(* Number of world objects ever constructed in the repeater runs. *)
MaxRepeaterObjects == 14

(* Largest initial cost a pair is constructed with. *)
MaxCost == 1

(* The callbacks an event of the repeater runs is constructed with: none,  *)
(* or one that schedules an UnblockEvent at the current time.              *)
RepeaterCallbacks == {<<>>, <<"schedule">>}

InitRepeater ==
    /\ InitQueue
    /\ \E wA \in {Station_init(EmptyWorld)} :
       \E wM \in {Station_init(wA)} :
       \E wB \in {Station_init(wM)} :
       \E w1 \in {Source_init(wB, <<Len(wA.objs), Len(wM.objs)>>)} :
       \E w \in {Source_init(w1, <<Len(wM.objs), Len(wB.objs)>>)} :
           /\ world_objects = w.world_objects
           /\ label_counters = w.label_counters
           /\ objs = w.objs
    /\ evs = <<>>
    /\ trace = <<>>

OfType(ty) == {o \in 1 .. Len(objs) : objs[o].type = ty}

(* event_queue.add_event(SourceEvent(time=t, source=s, initial_state=...,  *)
(* callback_functions=callbacks, initial_cost_add=..., initial_cost_max=   *)
(* ...)): the keyword arguments the constructor does not name are kept as  *)
(* generation_kwargs; required_objects=[self.source,                       *)
(* *self.source.target_stations]                                           *)
NewSourceEvent(s, t, initial_cost_add, initial_cost_max, callbacks) ==
    /\ NumberOfType(evs, "SourceEvent")
           + NumberOfType(evs, "EntanglementSwappingEvent") < MaxRepeaterEvents
    /\ construct_and_add(
           [NewEventRecord(Len(evs) + 1, t, "SourceEvent",
                           DefaultPriorityOf("SourceEvent"),
                           <<s>> \o objs[s].target_stations,
                           DefaultIgnoreBlockedOf("SourceEvent"), callbacks,
                           TRUE)
            EXCEPT !.source = s,
                   !.generation_kwargs =
                       [initial_cost_add |-> initial_cost_add,
                        initial_cost_max |-> initial_cost_max]])

(* SchedulingSource.schedule_event: time_distribution gives time_delay and *)
(* times_tried; the SourceEvent is scheduled at current_time + time_delay  *)
(* with times_tried as initial_cost_add and as initial_cost_max.           *)
schedule_event(s, time_delay, times_tried) ==
    NewSourceEvent(s, current_time + time_delay, times_tried, times_tried,
                   <<>>)

(* event_queue.add_event(EntanglementSwappingEvent(time=now,               *)
(* pairs=[pair1, pair2], station=st, callback_functions=callbacks)):       *)
(* required_objects are the pairs and the qubits of the pairs.             *)
NewSwappingEvent(pair1, pair2, st, callbacks) ==
    /\ NumberOfType(evs, "SourceEvent")
           + NumberOfType(evs, "EntanglementSwappingEvent") < MaxRepeaterEvents
    /\ construct_and_add(
           [NewEventRecord(Len(evs) + 1, current_time,
                           "EntanglementSwappingEvent",
                           DefaultPriorityOf("EntanglementSwappingEvent"),
                           <<pair1, pair2>> \o objs[pair1].qubits
                               \o objs[pair2].qubits,
                           DefaultIgnoreBlockedOf("EntanglementSwappingEvent"),
                           callbacks, TRUE)
            EXCEPT !.pairs = <<pair1, pair2>>, !.station = st])

(* A SourceEvent the user constructs at the current time, without         *)
(* generation arguments.                                                   *)
RepeaterSource ==
    \E s \in OfType("Source"), callbacks \in RepeaterCallbacks :
        NewSourceEvent(s, current_time, NoCost, NoCost, callbacks)

(* source.schedule_event() for the time delays that stay within MaxTime    *)
(* and the numbers of tries up to MaxCost.                                 *)
SourceSchedule ==
    \E s \in OfType("Source"), time_delay \in Times,
       times_tried \in 1 .. MaxCost :
        /\ current_time + time_delay <= MaxTime
        /\ schedule_event(s, time_delay, times_tried)

(* A swap of two pairs that are in the world, given in the order of their *)
(* creation, at any station.                                               *)
RepeaterSwapping ==
    \E pair1, pair2 \in OfType("Pair") \cap WorldObjects,
       st \in OfType("Station"), callbacks \in RepeaterCallbacks :
        pair1 < pair2 /\ NewSwappingEvent(pair1, pair2, st, callbacks)

(* The user destroys a station or a source that is in the world and that  *)
(* a pending event requires; at most MaxDestroyed of them over a run.      *)
RepeaterDestroy ==
    \E o \in (OfType("Station") \cup OfType("Source")) \cap WorldObjects :
        /\ Cardinality((OfType("Station") \cup OfType("Source"))
                           \ WorldObjects) < MaxDestroyed
        /\ objs[o].required_by_events # <<>>
        /\ destroy(o)

(* resolve_next_event while the objects created so far leave room for the *)
(* three objects of one more pair.                                         *)
RepeaterResolve ==
    /\ Len(objs) + 3 <= MaxRepeaterObjects
    /\ resolve_next_event

NextRepeater ==
    \/ RepeaterSource
    \/ RepeaterSwapping
    \/ RepeaterDestroy
    \/ RepeaterResolve

SpecRepeater == InitRepeater /\ [][NextRepeater]_vars

(* The sources of the repeater link on their own: SourceEvents constructed *)
(* by the user at the current time and SourceEvents the sources schedule   *)
(* themselves, resolved through the queue while stations and sources may   *)
(* be destroyed.                                                           *)
NextSource ==
    \/ RepeaterSource
    \/ SourceSchedule
    \/ RepeaterDestroy
    \/ RepeaterResolve

SpecSource == InitRepeater /\ [][NextSource]_vars

----------------------------------------------------------------------------
(* The log of the latest call is that of a resolution that entered         *)
(* Event.resolve.                                                          *)
ResolutionLogged == trace # <<>> /\ trace[1].op = "resolve"

LastEntry == trace[Len(trace)]

EffectLogged == \E k \in 1 .. Len(trace) : trace[k].op = "effect"

IsCallback(entry) == entry.op = "callback"

CallbackEntries == SelectSeq(trace, IsCallback)

ListedIn(e, o) == e \in Range(objs[o].required_by_events)

(* C11: an event that fires with a required object that is no longer in    *)
(* the world resolves without raising, with resolve_successful False, and   *)
(* its effect is not invoked.                                              *)
C11_DestroyedObjectResolution ==
    (ResolutionLogged /\ trace[1].missing) =>
        /\ LastEntry.op = "return"
        /\ ~LastEntry.result
        /\ ~EffectLogged

(* C12: an event that resolves with all required objects in the world and  *)
(* one of them blocked: with ignore_blocked false the effect is not run,   *)
(* the result has resolve_successful False and nothing is raised; with     *)
(* ignore_blocked true the effect runs and the result has                  *)
(* resolve_successful True.                                                *)
C12_BlockedObjectResolution ==
    (ResolutionLogged /\ ~trace[1].missing /\ trace[1].blocked) =>
        /\ LastEntry.op = "return"
        /\ IF trace[1].ignore_blocked
           THEN EffectLogged /\ LastEntry.result
           ELSE ~EffectLogged /\ ~LastEntry.result

(* C13: a constructed event that has not been resolved is listed in        *)
(* required_by_events of each of its required objects; once resolve was    *)
(* called on it, validly or not, it is listed in no object.                *)
C13_RequiredByEvents ==
    \A e \in 1 .. Len(evs) :
        evs[e].constructed =>
            IF ~evs[e].fired
            THEN \A k \in 1 .. Len(evs[e].required_objects) :
                     ListedIn(e, evs[e].required_objects[k])
            ELSE \A o \in 1 .. Len(objs) : ~ListedIn(e, o)

(* An event requiring two objects, one of them destroyed before it fired,  *)
(* after its unsuccessful resolution.                                      *)
C13_Witness ==
    /\ ResolutionLogged /\ trace[1].missing
    /\ LastEntry.op = "return" /\ ~LastEntry.result
    /\ Len(evs[trace[1].ev].required_objects) = 2
    /\ \A o \in 1 .. Len(objs) : ~ListedIn(trace[1].ev, o)

(* C14: in each resolution every callback of the event is called exactly   *)
(* once, in the order construction callbacks then added callbacks, with    *)
(* the result dict, after the effect ran or was skipped and after the      *)
(* deregistration, whether the resolution is successful or not; no         *)
(* callback of an event is called before the event is resolved.            *)
C14_CallbacksOncePerResolution ==
    /\ \A e \in 1 .. Len(evs) :
          ~evs[e].fired =>
              \A k \in 1 .. Len(evs[e].called) : evs[e].called[k] = 0
    /\ ResolutionLogged =>
          /\ Len(CallbackEntries) = trace[1].callbacks
          /\ \A k \in 1 .. Len(CallbackEntries) :
                /\ CallbackEntries[k].cb = k
                /\ CallbackEntries[k].ev = trace[1].ev
                /\ LastEntry.op = "return"
                /\ CallbackEntries[k].result = LastEntry.result
          /\ \A i, j \in 1 .. Len(trace) :
                (trace[i].op \in {"effect", "deregister"}
                     /\ trace[j].op = "callback") => i < j
          /\ trace[1].callbacks > 0 =>
                \E i \in 1 .. Len(trace) : trace[i].op = "deregister"

----------------------------------------------------------------------------
(* The step is the first resolution of the event e. *)
Fires(e) == evs[e].constructed /\ ~evs[e].fired /\ evs'[e].fired

(* The call logged is a resolution of e that returned with                 *)
(* resolve_successful True.                                                *)
ResolvedSuccessfully(e) ==
    /\ ResolutionLogged
    /\ LastEntry = [op |-> "return", ev |-> e, result |-> TRUE]

PairsInWorld == OfType("Pair") \cap WorldObjects

(* The qubits of the pair p that are, or are not, in the station's list. *)
QubitsAt(p, st) ==
    {objs[p].qubits[k] : k \in 1 .. Len(objs[p].qubits)}
        \cap Range(objs[st].qubits)

QubitsNotAt(p, st) ==
    {objs[p].qubits[k] : k \in 1 .. Len(objs[p].qubits)}
        \ Range(objs[st].qubits)

(* The step is a call of resolve_next_event that returns and that resolved *)
(* the event e, for the first time or not.                                 *)
Returns(e) ==
    /\ queue # <<>> /\ queue[1].id = e
    /\ stats'[evs[e].type].resolved = stats[evs[e].type].resolved + 1

(* The first resolution of a SourceEvent: when the source and its target   *)
(* stations are in the world it returns successfully, exactly two qubits,  *)
(* the first at the first and the second at the second target station, and *)
(* one Pair made of them are new and in the world, and the result holds    *)
(* that pair as output_pair and the source as source; otherwise nothing is *)
(* created and the resolution is unsuccessful.                             *)
SourceEventFirstResolution ==
        \A e \in 1 .. Len(evs) :
          (evs[e].type = "SourceEvent" /\ Fires(e)) =>
              LET s == evs[e].source
                  st == objs[s].target_stations
                  n == Len(objs)
              IN  IF \A k \in 1 .. Len(evs[e].required_objects) :
                         evs[e].required_objects[k] \in WorldObjects
                  THEN /\ ResolvedSuccessfully(e)'
                       /\ Len(objs') = n + 3
                       /\ WorldObjects' = WorldObjects \cup {n + 1, n + 2, n + 3}
                       /\ \A k \in 1 .. 2 :
                             /\ objs'[n + k].type = "Qubit"
                             /\ objs'[n + k].station = st[k]
                             /\ objs'[n + k].pair = n + 3
                       /\ \A x \in OfType("Station") :
                             objs'[x].qubits =
                                 objs[x].qubits
                                 \o (IF st[1] = x THEN <<n + 1>> ELSE <<>>)
                                 \o (IF st[2] = x THEN <<n + 2>> ELSE <<>>)
                       /\ objs'[n + 3].type = "Pair"
                       /\ objs'[n + 3].qubits = <<n + 1, n + 2>>
                       /\ evs'[e].returned.output_pair = n + 3
                       /\ evs'[e].returned.source = s
                  ELSE /\ Len(objs') = n
                       /\ WorldObjects' = WorldObjects
                       /\ \A x \in OfType("Station") :
                             objs'[x].qubits = objs[x].qubits
                       /\ LastEntry' = [op |-> "return", ev |-> e,
                                        result |-> FALSE]

(* The pair a SourceEvent creates is constructed with the initial costs    *)
(* the event was given: those of schedule_event are the number of tries.   *)
SourceEventPairCosts ==
    [][\A e \in 1 .. Len(evs) :
          (evs[e].type = "SourceEvent" /\ Fires(e)
               /\ Len(objs') = Len(objs) + 3) =>
              /\ objs'[Len(objs')].resource_cost_add
                     = evs[e].generation_kwargs.initial_cost_add
              /\ objs'[Len(objs')].resource_cost_max
                     = evs[e].generation_kwargs.initial_cost_max
    ]_vars

(* A SourceEvent that has been resolved is next in the queue again, and    *)
(* the step creates no object.                                             *)
SourceEventCreatesNoMore ==
    \A e \in 1 .. Len(evs) :
        (/\ evs[e].type = "SourceEvent" /\ evs[e].fired
         /\ queue # <<>> /\ queue[1].id = e)
        => Len(objs') = Len(objs)

(* C19: a successfully resolved SourceEvent adds to the world exactly one  *)
(* new Pair and exactly one new qubit at each of the two target stations   *)
(* of its source, and returns that pair as output_pair and the source as   *)
(* source; when the source or one of its target stations is not in the     *)
(* world as the event fires, no pair and no qubit is created.              *)
C19_SourceEventCreatesPair ==
    [][SourceEventFirstResolution /\ SourceEventCreatesNoMore]_vars

(* C20: when a resolution of an EntanglementSwappingEvent on two pairs     *)
(* that each have exactly one qubit at the swapping station returns        *)
(* successfully, the                                                       *)
(* two input pairs and the two qubits at the station leave the world, the  *)
(* two leftover qubits stay in it, and exactly one object is new: a Pair   *)
(* in the world made of the two leftover qubits; the pairs in the world    *)
(* are those of before without the input pairs, with the new pair.         *)
C20_SwappingReplacesPairs ==
    [][ \A e \in 1 .. Len(evs) :
          (/\ evs[e].type = "EntanglementSwappingEvent"
           /\ Returns(e)
           /\ ResolvedSuccessfully(e)'
           /\ \A k \in 1 .. 2 :
                  Cardinality(QubitsAt(evs[e].pairs[k], evs[e].station)) = 1)
          => LET pair1 == evs[e].pairs[1]
                 pair2 == evs[e].pairs[2]
                 st == evs[e].station
                 swapping == QubitsAt(pair1, st) \cup QubitsAt(pair2, st)
                 leftover == QubitsNotAt(pair1, st) \cup QubitsNotAt(pair2, st)
                 new == Len(objs) + 1
             IN  /\ pair1 \notin WorldObjects' /\ pair2 \notin WorldObjects'
                 /\ Cardinality(swapping) = 2
                 /\ swapping \cap WorldObjects' = {}
                 /\ Cardinality(leftover) = 2
                 /\ leftover \subseteq WorldObjects'
                 /\ Len(objs') = new
                 /\ objs'[new].type = "Pair"
                 /\ Range(objs'[new].qubits) = leftover
                 /\ Len(objs'[new].qubits) = 2
                 /\ PairsInWorld' = (PairsInWorld \ {pair1, pair2}) \cup {new}
                 /\ WorldObjects' =
                        (WorldObjects \ ({pair1, pair2} \cup swapping))
                        \cup {new}
                 /\ evs'[e].returned.output_pair = new
      ]_vars

(* The three-station scenario after the swap at Mid: the only pair in the  *)
(* world is the output pair, whose qubits are at A and at B.               *)
C20_Witness ==
    \E e \in 1 .. Len(evs) :
        /\ evs[e].type = "EntanglementSwappingEvent"
        /\ ResolvedSuccessfully(e)
        /\ PairsInWorld = {evs[e].returned.output_pair}
        /\ objs[objs[evs[e].returned.output_pair].qubits[1]].station = 1
        /\ objs[objs[evs[e].returned.output_pair].qubits[2]].station = 3
        /\ evs[e].station = 2
        /\ \A k \in 1 .. 2 : evs[e].pairs[k] \notin WorldObjects

----------------------------------------------------------------------------
(* Qubits are created, noise is applied to them, handlers are added to    *)
(* them, and two qubits that have no owner are made a MultiQubit.  trace   *)
(* is the log of the latest call: the call, then the handler calls it made.*)

InitNoise == InitQueue /\ InitWorld

(* The number of apply_noise calls made so far, over all qubits. *)
NoisesApplied ==
    Cardinality(UNION {{<<o, k>> : k \in 1 .. Len(objs[o].applied)} :
                          o \in 1 .. Len(objs)})

(* The number of function handlers added so far, over all qubits. *)
HandlersAdded ==
    Cardinality(UNION {{<<o, k>> : k \in {j \in 1 .. Len(objs[o].noise_handlers) :
                                   objs[o].noise_handlers[j].kind = "function"}} :
                          o \in 1 .. Len(objs)})

NoiseNewQubit ==
    /\ NumberOfType(objs, "Qubit") < MaxNoiseQubits
    /\ SetWorld(qubit_Qubit_init(TheWorld))
    /\ trace' = <<[op |-> "Qubit", qubit |-> Len(objs) + 1]>>
    /\ UNCHANGED <<evs, qvars>>

NoiseApply ==
    \E q \in OfType("Qubit"), c \in NoiseCalls :
        /\ NoisesApplied < MaxNoises
        /\ \E r \in {apply_noise(objs, q, c.channel, c.args)} :
              /\ objs' = r.objs
              /\ trace' = <<[op |-> "apply_noise", qubit |-> q,
                             item |-> freeze_noise_channel(c.channel,
                                                           c.args)]>>
                          \o r.log
        /\ UNCHANGED <<world_objects, label_counters, evs, qvars>>

NoiseAddHandler ==
    \E q \in OfType("Qubit"), h \in FunctionHandlers :
        /\ HandlersAdded < MaxHandlers
        /\ \E r \in {add_noise_handler(objs, q, h)} :
              /\ objs' = r.objs
              /\ trace' = <<[op |-> "add_noise_handler", qubit |-> q,
                             noise_handler |-> h]>> \o r.log
        /\ UNCHANGED <<world_objects, label_counters, evs, qvars>>

NoiseAttach ==
    \E q1, q2 \in OfType("Qubit") :
        /\ q1 # q2
        /\ objs[q1].higher_order_object = NoObject
        /\ objs[q2].higher_order_object = NoObject
        /\ \E r \in {MultiQubit_init(TheWorld, <<q1, q2>>)} :
              /\ SetWorld(r.world)
              /\ trace' = <<[op |-> "MultiQubit", qubits |-> <<q1, q2>>]>>
                          \o r.log
        /\ UNCHANGED <<evs, qvars>>

NextNoise ==
    \/ NoiseNewQubit
    \/ NoiseApply
    \/ NoiseAddHandler
    \/ NoiseAttach

SpecNoise == InitNoise /\ [][NextNoise]_vars

----------------------------------------------------------------------------
(* Claims on the noise delegation of a qubit. *)

(* The handler calls logged by the latest call. *)
HandlerCalls(tr) == Tail(tr)

(* The latest call ended with a handler reporting success. *)
LastCallSucceeded(tr) ==
    /\ Len(tr) > 1
    /\ tr[Len(tr)].handling_successful

(* C26: Qubit.apply_noise calls the registered handlers in registration    *)
(* order and stops at the first one that reports success: no later handler *)
(* is called and the unresolved list is unchanged.  If no handler reports  *)
(* success, or none is registered, every handler was called and exactly    *)
(* one frozen copy of the channel with its arguments is appended at the    *)
(* end of the unresolved list of the qubit.                                *)
C26_ApplyNoiseDelegates ==
    [][trace'[1].op = "apply_noise" =>
        \E q \in {trace'[1].qubit}, item \in {trace'[1].item},
           calls \in {HandlerCalls(trace')} :
            /\ Len(calls) <= Len(objs[q].noise_handlers)
            /\ \A i \in 1 .. Len(calls) :
                   /\ calls[i].op = "handler"
                   /\ calls[i].qubit = q
                   /\ calls[i].handler = i
                   /\ calls[i].item = item
                   /\ i < Len(calls) => ~calls[i].handling_successful
            /\ \A k \in 1 .. Len(objs[q].noise_handlers) :
                   (k > Len(calls)
                      /\ objs[q].noise_handlers[k].kind = "MultiQubit")
                   => objs'[objs[q].noise_handlers[k].owner].state
                          = objs[objs[q].noise_handlers[k].owner].state
            /\ objs'[q].noise_handlers = objs[q].noise_handlers
            /\ IF LastCallSucceeded(trace')
               THEN objs'[q].unresolved_noises = objs[q].unresolved_noises
               ELSE /\ Len(calls) = Len(objs[q].noise_handlers)
                    /\ objs'[q].unresolved_noises
                           = Append(objs[q].unresolved_noises, item)
                    /\ item.args = trace'[1].item.args
    ]_vars

(* A noise was applied to a qubit with two handlers, the first of which    *)
(* handled it: the second, the handler of the owner of the qubit, was not  *)
(* called and the state of the owner is untouched.                         *)
C26_Witness ==
    /\ Len(trace) = 2
    /\ trace[1].op = "apply_noise"
    /\ trace[2].handling_successful
    /\ Len(objs[trace[1].qubit].noise_handlers) = 2
    /\ objs[trace[1].qubit].noise_handlers[2].kind = "MultiQubit"
    /\ objs[objs[trace[1].qubit].higher_order_object].state = <<>>

(* The items of a list that the handler calls, one per item and in the     *)
(* order of the list, did not report as handled.                           *)
RECURSIVE NotHandled(_, _)
NotHandled(items, calls) ==
    IF items = <<>> THEN <<>>
    ELSE IF Head(calls).handling_successful
         THEN NotHandled(Tail(items), Tail(calls))
         ELSE <<Head(items)>> \o NotHandled(Tail(items), Tail(calls))

(* C27: Qubit.add_noise_handler(h) offers every unresolved noise of the    *)
(* qubit to h exactly once, in the order of the unresolved list, removes   *)
(* exactly the items h reports as handled, keeps the other items in their  *)
(* order and then registers h as the last handler; the handlers registered *)
(* before are not called.                                                  *)
C27_AddHandlerOffersUnresolved ==
    [][trace'[1].op = "add_noise_handler" =>
        \E q \in {trace'[1].qubit}, h \in {trace'[1].noise_handler},
           calls \in {HandlerCalls(trace')} :
            /\ Len(calls) = Len(objs[q].unresolved_noises)
            /\ \A i \in 1 .. Len(calls) :
                   /\ calls[i].op = "handler"
                   /\ calls[i].qubit = q
                   /\ calls[i].handler = 0
                   /\ calls[i].item = objs[q].unresolved_noises[i]
                   /\ calls[i].handling_successful
                          = (calls[i].item.channel \in h.accepts)
            /\ objs'[q].unresolved_noises
                   = NotHandled(objs[q].unresolved_noises, calls)
            /\ objs'[q].noise_handlers = Append(objs[q].noise_handlers, h)
            /\ objs'[q].applied = objs[q].applied
    ]_vars

(* A second handler was added to a qubit holding two unresolved noises:    *)
(* it handled the first of them and not the second, which stays.           *)
C27_Witness ==
    /\ Len(trace) = 3
    /\ trace[1].op = "add_noise_handler"
    /\ trace[2].handling_successful
    /\ ~trace[3].handling_successful
    /\ Len(objs[trace[1].qubit].noise_handlers) = 2
    /\ objs[trace[1].qubit].unresolved_noises = <<trace[3].item>>

(* The channels of a list applied at a qubit index, as they appear in the  *)
(* state of a multi-qubit object.                                          *)
AppliedAt(items, qubit_index) ==
    [i \in 1 .. Len(items) |->
        [channel |-> items[i].channel, args |-> items[i].args,
         qubit_index |-> qubit_index]]

(* The part of the state of a multi-qubit object that acts on one qubit. *)
StateAt(state, qubit_index) ==
    SelectSeq(state, LAMBDA a : a.qubit_index = qubit_index)

(* C28: noise retroactivity.  When qubits are made a MultiQubit, the       *)
(* channels applied to the state of the new object at the index of a qubit *)
(* that had no handler are exactly the channels that were applied to that  *)
(* qubit, once each and in the same order, as if they had been applied to  *)
(* the initial state of the object directly; the unresolved list of the    *)
(* qubit is empty afterwards.                                              *)
C28_NoiseRetroactivity ==
    [][trace'[1].op = "MultiQubit" =>
        \E qubits \in {trace'[1].qubits}, m \in {Len(objs) + 1} :
            /\ objs'[m].qubits = qubits
            /\ \A k \in 1 .. Len(qubits) :
                   objs[qubits[k]].noise_handlers = <<>> =>
                       /\ StateAt(objs'[m].state, k - 1)
                              = AppliedAt(objs[qubits[k]].applied, k - 1)
                       /\ objs'[qubits[k]].unresolved_noises = <<>>
                       /\ objs'[qubits[k]].higher_order_object = m
            /\ \A i \in 1 .. Len(objs'[m].state) :
                   objs'[m].state[i].qubit_index \in 0 .. Len(qubits) - 1
    ]_vars

(* Two noises were applied to the second of two qubits without handlers,   *)
(* the qubits were then made a MultiQubit, and its state is its initial    *)
(* state with the two channels applied at index 1 in their order.          *)
C28_Witness ==
    /\ Len(objs) = 3
    /\ Len(trace) > 0
    /\ trace[1].op = "MultiQubit"
    /\ Len(objs[3].state) = 2
    /\ objs[3].state[1].qubit_index = 1
    /\ objs[3].state[1].channel = "Z"
    /\ objs[3].state[2].channel = "X"
    /\ objs[objs[3].qubits[2]].applied
           = <<freeze_noise_channel("Z", <<"t=1">>),
               freeze_noise_channel("X", <<>>)>>
    /\ Len(objs[objs[3].qubits[2]].noise_handlers) = 1

----------------------------------------------------------------------------
(* Claim on the queue while an event is resolved. *)

(* C30: resolve_next_event takes the head event out of the queue before it *)
(* calls the event's resolve: while the effect and the callbacks of the    *)
(* event run, the event is not in the pending queue that they read.        *)
C30_PoppedBeforeResolve ==
    pc = "resolving" => event.id \notin Ids(queue)

----------------------------------------------------------------------------
(* UnblockEvents on the two plain objects of the event tests: objects are  *)
(* blocked and destroyed, UnblockEvents are added for one or both objects, *)
(* with or without a callback that schedules a follow-up, and resolved.    *)

(* The number of UnblockEvents the user constructs. *)
MaxUnblockEvents == 1

(* quantum_objects handed to the constructor. *)
UnblockChoices == {<<1>>, <<2>>, <<1, 2>>}

(* The UnblockEvents constructed by the user. *)
UnblockEventsNew ==
    {e \in 1 .. Len(evs) : evs[e].type = "UnblockEvent"
                              /\ evs[e].required_objects # <<>>}

(* event_queue.add_event(UnblockEvent(time=t, quantum_objects=...,         *)
(*                                    priority=...))                       *)
NewUnblockEvent(t, quantum_objects, priority, callbacks) ==
    /\ pc = "idle" /\ target = NoTarget
    /\ t >= current_time
    /\ Cardinality(UnblockEventsNew) < MaxUnblockEvents
    /\ construct_and_add(
           NewEventRecord(Len(evs) + 1, t, "UnblockEvent", priority,
                          quantum_objects, TRUE, callbacks, TRUE))

UnblockNew ==
    \E t \in Times, quantum_objects \in UnblockChoices,
       priority \in {UnblockPriority, DefaultPriority},
       callbacks \in RepeaterCallbacks :
        NewUnblockEvent(t, quantum_objects, priority, callbacks)

NextUnblock ==
    \/ UnblockNew
    \/ EventsBlock
    \/ EventsDestroy
    \/ resolve_next_event

SpecUnblock == InitEvents /\ [][NextUnblock]_vars

(* C25: an UnblockEvent that resolves successfully sets is_blocked to      *)
(* False on every object it lists and changes is_blocked on no other       *)
(* object; it resolves successfully whenever its objects are in the world, *)
(* blocked or not.                                                         *)
C25_UnblockEvent ==
    [][\A e \in 1 .. Len(evs) :
          (evs[e].type = "UnblockEvent" /\ Returns(e)) =>
              /\ ResolvedSuccessfully(e)'
                     <=> Range(evs[e].required_objects) \subseteq WorldObjects
              /\ ResolvedSuccessfully(e)' =>
                     \A o \in 1 .. Len(objs) :
                         objs'[o].is_blocked
                             = (objs[o].is_blocked
                                  /\ o \notin Range(evs[e].required_objects))
    ]_vars

(* An UnblockEvent for the first object resolved successfully while both   *)
(* objects were blocked: the first is unblocked, the second still blocked. *)
C25_Witness ==
    /\ ResolutionLogged
    /\ trace[1].blocked
    /\ LastEntry.result
    /\ evs[LastEntry.ev].type = "UnblockEvent"
    /\ evs[LastEntry.ev].required_objects = <<1>>
    /\ ~objs[1].is_blocked
    /\ objs[2].is_blocked

----------------------------------------------------------------------------
(* DiscardQubitEvents on qubits and 2-qubit MultiQubits (quantum_objects/  *)
(* qubit.py, multi_qubit.py): qubits are created, two qubits without owner *)
(* are made a pair, objects are blocked and destroyed, DiscardQubitEvents  *)
(* are added with their default priority and ignore_blocked, with or       *)
(* without a callback that schedules a follow-up, and resolved.            *)

MaxDiscardQubits == 2
MaxDiscardEvents == 1

DiscardNewQubit ==
    /\ NumberOfType(objs, "Qubit") < MaxDiscardQubits
    /\ SetWorld(qubit_Qubit_init(TheWorld))
    /\ UNCHANGED <<evs, trace, qvars>>

(* MultiQubit(world, qubits=[q1, q2], initial_state) *)
DiscardAttach ==
    \E q1, q2 \in OfType("Qubit") \cap WorldObjects :
        /\ q1 < q2
        /\ objs[q1].higher_order_object = NoObject
        /\ objs[q2].higher_order_object = NoObject
        /\ SetWorld(MultiQubit_init(TheWorld, <<q1, q2>>).world)
        /\ UNCHANGED <<evs, trace, qvars>>

(* event_queue.add_event(DiscardQubitEvent(time=now, qubit=q)) *)
NewDiscardQubitEvent(q, callbacks) ==
    /\ NumberOfType(evs, "DiscardQubitEvent") < MaxDiscardEvents
    /\ construct_and_add(
           NewEventRecord(Len(evs) + 1, current_time, "DiscardQubitEvent",
                          DiscardPriority, <<q>>,
                          DefaultIgnoreBlockedOf("DiscardQubitEvent"),
                          callbacks, TRUE))

DiscardNew ==
    \E q \in OfType("Qubit") \cap WorldObjects,
       callbacks \in RepeaterCallbacks :
        NewDiscardQubitEvent(q, callbacks)

(* qubit.is_blocked = True *)
DiscardBlock == \E q \in OfType("Qubit") : SetBlocked(q)

(* destroy() of an object that is in the world. *)
DiscardDestroy ==
    \E o \in WorldObjects :
        /\ SetWorld(world_object_destroy(TheWorld, o))
        /\ UNCHANGED <<evs, trace, qvars>>

NextDiscard ==
    \/ DiscardNewQubit
    \/ DiscardAttach
    \/ DiscardNew
    \/ DiscardBlock
    \/ DiscardDestroy
    \/ resolve_next_event

SpecDiscard == InitNoise /\ [][NextDiscard]_vars

(* The multi-qubit objects in the world that have the qubit q among their *)
(* qubits: the pair the qubit belongs to, if any.                          *)
PairsOf(q) ==
    {m \in WorldObjects : /\ objs[m].type = MultiQubitType(Len(objs[m].qubits))
                          /\ q \in Range(objs[m].qubits)}

(* C21: a DiscardQubitEvent resolves successfully whenever its qubit is in *)
(* the world, blocked or not.  Resolved successfully, it takes out of the  *)
(* world the pair of the qubit and both qubits of that pair when the qubit *)
(* belongs to a pair, and only the qubit when it belongs to none; every    *)
(* other object stays in the world.                                        *)
C21_DiscardQubitEvent ==
    [][\A e \in 1 .. Len(evs) :
          (evs[e].type = "DiscardQubitEvent" /\ Returns(e)) =>
              \E q \in {evs[e].required_objects[1]} :
                  /\ ResolvedSuccessfully(e)' <=> q \in WorldObjects
                  /\ ResolvedSuccessfully(e)' =>
                         WorldObjects' =
                             IF PairsOf(q) # {}
                             THEN WorldObjects
                                    \ UNION {{m} \cup Range(objs[m].qubits) :
                                                 m \in PairsOf(q)}
                             ELSE WorldObjects \ {q}
    ]_vars

(* What the code does: the event follows the higher_order_object of the    *)
(* qubit, in the world or not, and takes that object and its qubits out of *)
(* the world; a qubit without one leaves alone.                            *)
DiscardFollowsHigherOrderObject ==
    [][\A e \in 1 .. Len(evs) :
          (evs[e].type = "DiscardQubitEvent" /\ Returns(e)) =>
              \E q \in {evs[e].required_objects[1]} :
                  /\ ResolvedSuccessfully(e)' <=> q \in WorldObjects
                  /\ ResolvedSuccessfully(e)' =>
                         WorldObjects' =
                             IF objs[q].higher_order_object # NoObject
                             THEN WorldObjects
                                    \ ({objs[q].higher_order_object}
                                         \cup Range(objs[objs[q]
                                             .higher_order_object].qubits))
                             ELSE WorldObjects \ {q}
    ]_vars

----------------------------------------------------------------------------
(* A station with a memory cutoff time (quantum_objects/station.py): the  *)
(* station creates qubits, each with its DiscardQubitEvent; an event on    *)
(* the station, with or without a callback that schedules a follow-up, is  *)
(* added at the current time; qubits are destroyed from outside; the queue *)
(* is resolved with resolve_until.  Qubits are created as long as their    *)
(* DiscardQubitEvent is not after MaxTime.                                 *)

MaxCutoffQubits == 1

(* memory_cutoff_time of the station. *)
Cutoffs == Times

(* World() and Station(world, position=0, memory_cutoff_time=c), or a      *)
(* station without cutoff time.                                            *)
InitCutoff ==
    /\ InitQueue
    /\ \E c \in Cutoffs \cup {NoCutoff} :
          \E w \in {station_Station_init(EmptyWorld, c)} :
              /\ world_objects = w.world_objects
              /\ label_counters = w.label_counters
              /\ objs = w.objs
    /\ evs = <<>>
    /\ trace = <<>>

(* Station.create_qubit(): the qubit, its registration at the station and, *)
(* as the station has a cutoff time, the DiscardQubitEvent of the qubit at *)
(* current_time + memory_cutoff_time, added to the queue.                  *)
station_create_qubit(st) ==
    /\ pc = "idle" /\ target = NoTarget
    /\ objs[st].memory_cutoff_time # NoCutoff =>
           current_time + objs[st].memory_cutoff_time <= MaxTime
    /\ NumberOfType(objs, "Qubit") < MaxCutoffQubits
    /\ \E w \in {register_qubit(qubit_Qubit_init(TheWorld), st,
                                 Len(objs) + 1)} :
          IF objs[st].memory_cutoff_time # NoCutoff
          THEN \E discard_event \in
                      {NewEventRecord(Len(evs) + 1,
                           current_time + objs[st].memory_cutoff_time,
                           "DiscardQubitEvent", DiscardPriority,
                           <<Len(objs) + 1>>,
                           DefaultIgnoreBlockedOf("DiscardQubitEvent"),
                           <<>>, TRUE)} :
                   /\ SetWorld([w EXCEPT !.objs = AppendRequiredBy(
                                    @, discard_event.required_objects,
                                    discard_event.id)])
                   /\ evs' = Append(evs, discard_event)
                   /\ queue' = insert_event(queue, QueueEntry(discard_event))
                   /\ stats' = [stats EXCEPT
                                  ![discard_event.type].scheduled = @ + 1]
          ELSE /\ SetWorld(w)
               /\ UNCHANGED <<evs, queue, stats>>
    /\ trace' = <<[op |-> "create_qubit", obj |-> Len(objs) + 1,
                   time |-> current_time]>>
    /\ UNCHANGED <<current_time, pc, event, target, base, added, resolved,
                   last>>

CutoffCreateQubit ==
    \E st \in OfType("Station") \cap WorldObjects : station_create_qubit(st)

(* event_queue.add_event(GenericEvent(time=now,                            *)
(*     required_objects=[station], callback_functions=callbacks))          *)
CutoffNewEvent ==
    \E st \in OfType("Station") \cap WorldObjects,
       callbacks \in RepeaterCallbacks :
        /\ pc = "idle" /\ target = NoTarget
        /\ NumberOfType(evs, "GenericEvent") < MaxWorldEvents
        /\ construct_and_add(
               NewEventRecord(Len(evs) + 1, current_time, "GenericEvent",
                              DefaultPriorityOf("GenericEvent"), <<st>>,
                              FALSE, callbacks, TRUE))

(* qubit.destroy() from outside. *)
CutoffDestroy ==
    \E q \in OfType("Qubit") \cap WorldObjects :
        /\ pc = "idle" /\ target = NoTarget
        /\ SetWorld(world_object_destroy(TheWorld, q))
        /\ trace' = WorldCall("destroy", q)
        /\ UNCHANGED <<evs, qvars>>

(* The call resolve_until(target_time) with target_time not in the past. *)
CutoffResolveUntilCall ==
    \E target_time \in Times :
        /\ pc = "idle" /\ target = NoTarget
        /\ ~ResolveUntilRaises(target_time, current_time)
        /\ target' = target_time
        /\ last' = NoCall
        /\ trace' = <<[op |-> "resolve_until", obj |-> NoObject,
                       time |-> target_time]>>
        /\ UNCHANGED <<queue, current_time, stats, pc, event, base, added,
                       resolved, world_objects, label_counters, objs, evs>>

(* One turn of the while loop of resolve_until: resolve_next_event on the  *)
(* head if its time is not after target_time, which ends the call if it    *)
(* raises; otherwise the loop is left and current_time set.                *)
CutoffResolveUntilLoop ==
    /\ pc = "idle" /\ target # NoTarget
    /\ IF queue # <<>> /\ queue[1].time <= target
       THEN /\ ResolveNextEvent
            /\ IF trace'[Len(trace')].op = "raise"
               THEN /\ target' = NoTarget
                    /\ last' = [op |-> "resolve_until", arg |-> target,
                                raised |-> TRUE]
               ELSE UNCHANGED <<target, last>>
       ELSE /\ current_time' = target
            /\ target' = NoTarget
            /\ last' = [op |-> "resolve_until", arg |-> target,
                        raised |-> FALSE]
            /\ UNCHANGED <<queue, stats, world_objects, label_counters,
                           objs, evs, trace>>
    /\ UNCHANGED <<pc, event, base, added, resolved>>

NextCutoff ==
    \/ CutoffCreateQubit
    \/ CutoffNewEvent
    \/ CutoffDestroy
    \/ CutoffResolveUntilCall
    \/ CutoffResolveUntilLoop

SpecCutoff == InitCutoff /\ [][NextCutoff]_vars

(* The qubits the station created with a DiscardQubitEvent, and that event *)
(* of a qubit: its time is the time of creation plus the cutoff time.      *)
CutoffQubits ==
    {q \in OfType("Qubit") :
        \E d \in 1 .. Len(evs) : evs[d].type = "DiscardQubitEvent"
                                    /\ evs[d].required_objects = <<q>>}

CutoffEventOf(q) ==
    CHOOSE d \in 1 .. Len(evs) : evs[d].type = "DiscardQubitEvent"
                                   /\ evs[d].required_objects = <<q>>

(* The step ends a call of resolve_until, by its return or by an exception. *)
ResolveUntilEnds == target # NoTarget /\ target' = NoTarget

(* A qubit of a station with cutoff time leaves the world only by a        *)
(* destroy from outside or when the time of its DiscardQubitEvent is       *)
(* reached: after resolve_until(t) with t before that time it is in the    *)
(* world.                                                                  *)
CutoffNotEarlier ==
    [][\A q \in CutoffQubits :
          (q \in WorldObjects /\ q \notin WorldObjects') =>
              \/ trace' = WorldCall("destroy", q)
              \/ current_time' >= evs[CutoffEventOf(q)].time
    ]_vars

(* After a resolve_until(T) that returned, a qubit whose DiscardQubitEvent *)
(* is at a time up to T is not in the world and not in the list of the     *)
(* station.                                                                *)
CutoffWhenReturned ==
    [][(ResolveUntilEnds /\ ~last'.raised) =>
          \A q \in CutoffQubits :
              evs[CutoffEventOf(q)].time <= target =>
                  /\ q \notin WorldObjects'
                  /\ q \notin Range(objs'[objs[q].station].qubits)
    ]_vars

(* C22: a qubit created at time t0 by a station with memory cutoff time c  *)
(* and not destroyed by anything else is in the world after                *)
(* resolve_until(t) for every t < t0 + c, and is not in the world and not  *)
(* in the qubit list of the station after resolve_until(t0 + c).           *)
C22_CutoffDiscards ==
    [][\A q \in CutoffQubits :
          /\ (q \in WorldObjects /\ q \notin WorldObjects') =>
                 \/ trace' = WorldCall("destroy", q)
                 \/ current_time' >= evs[CutoffEventOf(q)].time
          /\ (ResolveUntilEnds /\ evs[CutoffEventOf(q)].time <= target) =>
                 /\ q \notin WorldObjects'
                 /\ q \notin Range(objs'[objs[q].station].qubits)
    ]_vars

----------------------------------------------------------------------------
(* Entanglement purification: two stations, pairs between them, qubits of  *)
(* pairs replaced through the setters of Pair, EntanglementPurification-   *)
(* Events on two or more of the pairs, and the queue resolved event by     *)
(* event or by resolve_until.                                              *)
MaxPurifyPairs == 2
MaxPurifyEvents == 1

InitPurify ==
    /\ InitQueue
    /\ \E wA \in {Station_init(EmptyWorld)} :
       \E w \in {Station_init(wA)} :
           /\ world_objects = w.world_objects
           /\ label_counters = w.label_counters
           /\ objs = w.objs
    /\ evs = <<>>
    /\ trace = <<>>

(* Pair(world, qubits=[station_a.create_qubit(), station_b.create_qubit()], *)
(*      initial_state)                                                      *)
PurifyNewPair ==
    \E station_a, station_b \in OfType("Station") :
        /\ station_a < station_b
        /\ pc = "idle" /\ target = NoTarget
        /\ NumberOfType(objs, "Pair") < MaxPurifyPairs
        /\ SetWorld(Pair_init(
               create_qubit(create_qubit(TheWorld, station_a), station_b),
               <<Len(objs) + 1, Len(objs) + 2>>))
        /\ UNCHANGED <<evs, trace, qvars>>

(* The lists of two or more different pairs that are in the world, in the  *)
(* order of their creation.                                                *)
PairLists ==
    {pairs \in UNION {[1 .. n -> PairsInWorld] :
                          n \in 2 .. Cardinality(PairsInWorld)} :
        \A i, j \in 1 .. Len(pairs) : i < j => pairs[i] < pairs[j]}

(* The qubits of the pairs of a list, pair after pair. *)
RECURSIVE QubitsOfPairs(_)
QubitsOfPairs(pairs) ==
    IF pairs = <<>> THEN <<>>
    ELSE objs[Head(pairs)].qubits \o QubitsOfPairs(Tail(pairs))

(* event_queue.add_event(EntanglementPurificationEvent(time=now,           *)
(*     pairs=pairs, communication_time=c, protocol=protocol)):             *)
(* required_objects=self.pairs + [qubit for pair in self.pairs             *)
(*                                for qubit in pair.qubits]                *)
NewPurificationEvent(pairs, c, protocol, p_suc_reached) ==
    /\ NumberOfType(evs, "EntanglementPurificationEvent") < MaxPurifyEvents
    /\ current_time + c <= MaxTime
    /\ construct_and_add(
           [NewEventRecord(Len(evs) + 1, current_time,
                           "EntanglementPurificationEvent",
                           DefaultPriorityOf("EntanglementPurificationEvent"),
                           pairs \o QubitsOfPairs(pairs),
                           DefaultIgnoreBlockedOf(
                               "EntanglementPurificationEvent"),
                           <<>>, TRUE)
            EXCEPT !.pairs = pairs, !.communication_time = c,
                   !.protocol = protocol, !.p_suc_reached = p_suc_reached])

PurifyNew ==
    \E pairs \in PairLists, c \in Times, protocol \in Protocols,
       p_suc_reached \in BOOLEAN :
        /\ pc = "idle" /\ target = NoTarget
        /\ NewPurificationEvent(pairs, c, protocol, p_suc_reached)

(* Number of times a qubit a pair was made with is replaced. *)
MaxQubitChanges == 1

(* The setters of Pair.qubit1 and Pair.qubit2: self.qubits[0] = qubit and  *)
(* self.qubits[1] = qubit; k is the place in the list.                     *)
Pair_set_qubit(os, pair, k, qubit) == [os EXCEPT ![pair].qubits[k] = qubit]

(* The places that hold another qubit than the pair was made with: the     *)
(* pair p is made of the two qubits created right before it.               *)
ChangedQubits ==
    {pk \in OfType("Pair") \X {1, 2} :
        objs[pk[1]].qubits[pk[2]] # pk[1] - 3 + pk[2]}

(* pair.qubit1 = qubit or pair.qubit2 = qubit from outside, with any other *)
(* qubit that was created, at a place that holds the qubit the pair was    *)
(* made with.                                                              *)
PurifySetQubit ==
    \E pair \in OfType("Pair"), k \in {1, 2}, qubit \in OfType("Qubit") :
        /\ pc = "idle" /\ target = NoTarget
        /\ <<pair, k>> \notin ChangedQubits
        /\ qubit # objs[pair].qubits[k]
        /\ Cardinality(ChangedQubits) < MaxQubitChanges
        /\ objs' = Pair_set_qubit(objs, pair, k, qubit)
        /\ UNCHANGED <<world_objects, label_counters, evs, trace, qvars>>

(* pair.destroy() from outside, of a pair that is not blocked. *)
PurifyDestroy ==
    \E pair \in PairsInWorld :
        /\ pc = "idle" /\ target = NoTarget
        /\ ~objs[pair].is_blocked
        /\ Cardinality(OfType("Pair") \ WorldObjects) < MaxDestroyed
        /\ destroy(pair)

NextPurify ==
    \/ PurifyNewPair
    \/ PurifySetQubit
    \/ PurifyNew
    \/ PurifyDestroy
    \/ resolve_next_event
    \/ CutoffResolveUntilCall
    \/ CutoffResolveUntilLoop

SpecPurify == InitPurify /\ [][NextPurify]_vars

PurificationEvents ==
    {e \in 1 .. Len(evs) : evs[e].type = "EntanglementPurificationEvent"}

(* The surviving pair of a purification and its two qubits, and the other  *)
(* input pairs with their qubits.                                          *)
Survivors(e) ==
    {evs[e].pairs[1]} \cup Range(objs[evs[e].pairs[1]].qubits)

Consumed(e) ==
    UNION {{evs[e].pairs[k]} \cup Range(objs[evs[e].pairs[k]].qubits) :
               k \in 2 .. Len(evs[e].pairs)}

(* The events that are pending after the step and were not before it. *)
NewPending == Ids(queue') \ Ids(queue)

(* The follow-up event f of the purification e: at time +                  *)
(* communication_time, an UnblockEvent of the surviving pair and its       *)
(* qubits if the purification succeeded, otherwise the event that destroys *)
(* them.                                                                   *)
IsFollowUp(f, e) ==
    /\ evs'[f].time = evs[e].time + evs[e].communication_time
    /\ IF evs[e].p_suc_reached
       THEN /\ evs'[f].type = "UnblockEvent"
            /\ evs'[f].required_objects
                   = <<evs[e].pairs[1]>> \o objs[evs[e].pairs[1]].qubits
       ELSE /\ evs'[f].resolve_function = "destroy_function"
            /\ evs'[f].required_objects = <<evs[e].pairs[1]>>

(* The state right after the purification e resolved. *)
PurificationPost(e) ==
    /\ \A o \in Survivors(e) : objs'[o].is_blocked /\ o \in WorldObjects'
    /\ \A o \in Consumed(e) : o \notin WorldObjects'
    /\ Cardinality(NewPending) = 1
    /\ \A f \in NewPending : IsFollowUp(f, e)
    /\ evs'[e].returned = [output_pair |-> evs[e].pairs[1],
                           is_successful |-> evs[e].p_suc_reached]

(* A purification with a positive communication_time, of pairs that hold  *)
(* the qubits they were made with, leaves the state of PurificationPost    *)
(* when it resolved successfully.                                          *)
PurificationPostDelayed ==
    [][\A e \in PurificationEvents :
          (Returns(e) /\ ResolvedSuccessfully(e)'
               /\ evs[e].communication_time > 0 /\ ChangedQubits = {})
          => PurificationPost(e)
    ]_vars

(* C23: immediately after an EntanglementPurificationEvent on N >= 2 pairs *)
(* has resolved successfully, the first pair and its two qubits are        *)
(* blocked and in the world, every other input pair and its qubits are not *)
(* in the world, exactly one follow-up event is pending at time +          *)
(* communication_time (an UnblockEvent for the surviving pair and its      *)
(* qubits if the purification succeeded, otherwise an event that destroys  *)
(* them), and the result carries output_pair and is_successful.            *)
C23_PurificationEffect ==
    [][\A e \in PurificationEvents :
          (Returns(e) /\ ResolvedSuccessfully(e)') => PurificationPost(e)
    ]_vars

(* The purifications that resolved successfully and left the object o      *)
(* blocked.                                                                *)
BlockedBy(o) ==
    {e \in PurificationEvents :
        /\ evs[e].fired /\ evs[e].resolve_successful
        /\ o \in Survivors(e)}

(* The object was blocked by purifications whose follow-up times are all   *)
(* reached at the time T.                                                  *)
FollowUpsReached(o, T) ==
    /\ BlockedBy(o) # {}
    /\ \A e \in BlockedBy(o) :
           evs[e].time + evs[e].communication_time <= T

(* After a resolve_until(T) that returned, an object whose purifications   *)
(* have their follow-up times up to T is unblocked or not in the world,    *)
(* if the pairs hold the qubits they were made with.                       *)
PurificationUnblockedWhenReturned ==
    [][(ResolveUntilEnds /\ ~last'.raised /\ ChangedQubits = {}) =>
          \A o \in 1 .. Len(objs) :
              FollowUpsReached(o, target) =>
                  ~objs'[o].is_blocked \/ o \notin WorldObjects'
    ]_vars

(* C24: after a successfully resolved EntanglementPurificationEvent at     *)
(* time t with communication_time c >= 0, once the queue has been resolved *)
(* up to time t + c the surviving pair and its two qubits are each either  *)
(* unblocked or no longer in the world.                                    *)
C24_NoBlockedAfterFollowUp ==
    [][ResolveUntilEnds =>
          \A o \in 1 .. Len(objs) :
              FollowUpsReached(o, target) =>
                  ~objs'[o].is_blocked \/ o \notin WorldObjects'
    ]_vars

----------------------------------------------------------------------------
(* Filtering the queue: events without required objects are added, qubits *)
(* are created with their DiscardQubitEvents, qubits are destroyed, and    *)
(* then pending events are removed by a call of remove_by_condition.  last *)
(* tells that the call was made and trace holds its condition and the list *)
(* it returned.  MaxFilterEvents bounds the events without objects.        *)
MaxFilterQubits == 2
MaxFilterEvents == 3

(* The conditions of the calls, those of the filtering tests:              *)
(* lambda x: x.time > t, lambda x: x.time % 2 == 0 and                     *)
(* lambda x: x.type == "DiscardQubitEvent" and not x.req_objects_exist().  *)
Conditions ==
    {[kind |-> "later", t |-> t] : t \in Times}
        \cup {[kind |-> "even", t |-> 0], [kind |-> "stale", t |-> 0]}

(* Event.req_objects_exist(): every required object of the event is in the *)
(* world.                                                                  *)
req_objects_exist(x, in_world) ==
    \A k \in 1 .. Len(x.required_objects) : x.required_objects[k] \in in_world

(* The condition applied to a pending event. *)
Satisfies(c, x, in_world) ==
    IF c.kind = "later" THEN x.time > c.t
    ELSE IF c.kind = "even" THEN x.time % 2 = 0
    ELSE x.type = "DiscardQubitEvent" /\ ~req_objects_exist(x, in_world)

(* Mutant: only the first pending event that satisfies the condition is    *)
(* removed.                                                                *)
remove_by_condition_first(q, c, in_world) ==
    LET condition(x) == Satisfies(c, x, in_world)
        matching == SelectSeq(q, condition)
    IN  IF matching = <<>> THEN [queue |-> q, removed |-> <<>>]
        ELSE [queue |-> ListRemove(q, Head(matching)),
              removed |-> <<Head(matching)>>]

(* EventQueue.remove_by_condition(condition): the pending events that      *)
(* satisfy the condition leave the queue and are returned, the others stay *)
(* in their order.                                                         *)
remove_by_condition(q, c, in_world) ==
    LET condition(x) == Satisfies(c, x, in_world)
        kept(x) == ~Satisfies(c, x, in_world)
    IN  [queue |-> SelectSeq(q, kept), removed |-> SelectSeq(q, condition)]

InitFilter == InitQueue /\ InitWorld

(* qubit = Qubit(world=world);                                             *)
(* event_queue.add_event(DiscardQubitEvent(time=t, qubit=qubit)):          *)
(* every qubit is created with the event that discards it, as a station    *)
(* with a memory cutoff time does.  The qubits are created before the      *)
(* DummyEvents are added: a DiscardQubitEvent has priority 39 and a        *)
(* DummyEvent 20, so the order of the queue is the same whichever of the   *)
(* two is added first.                                                     *)
FilterNewQubit ==
    \E t \in Times :
    \E w \in {qubit_Qubit_init(TheWorld)} :
    \E ev \in {NewEventRecord(Len(evs) + 1, t, "DiscardQubitEvent",
                              DiscardPriority, <<Len(w.objs)>>,
                              DefaultIgnoreBlockedOf("DiscardQubitEvent"),
                              <<>>, TRUE)} :
        /\ pc = "idle" /\ target = NoTarget /\ last = NoCall
        /\ t >= current_time
        /\ NumberOfType(objs, "Qubit") < MaxFilterQubits
        /\ NumberOfType(evs, "GenericEvent") = 0
        /\ SetWorld([w EXCEPT !.objs =
                        AppendRequiredBy(@, ev.required_objects, ev.id)])
        /\ evs' = Append(evs, ev)
        /\ queue' = insert_event(queue, QueueEntry(ev))
        /\ stats' = [stats EXCEPT ![ev.type].scheduled = @ + 1]
        /\ UNCHANGED <<current_time, pc, event, target, base, added,
                       resolved, last, trace>>

(* event_queue.add_event(DummyEvent(time=t)) *)
FilterNewDummy ==
    \E t \in Times :
        /\ pc = "idle" /\ target = NoTarget /\ last = NoCall
        /\ t >= current_time
        /\ NumberOfType(evs, "GenericEvent") < MaxFilterEvents
        /\ construct_and_add(
               NewEventRecord(Len(evs) + 1, t, "GenericEvent",
                              DefaultPriorityOf("GenericEvent"), NoObjects,
                              FALSE, <<>>, TRUE))

(* qubit.destroy() *)
FilterDestroy ==
    \E qubit \in OfType("Qubit") \cap WorldObjects :
        /\ pc = "idle" /\ target = NoTarget /\ last = NoCall
        /\ SetWorld(world_object_destroy(TheWorld, qubit))
        /\ UNCHANGED <<evs, trace, qvars>>

(* removed_events = event_queue.remove_by_condition(condition) *)
FilterRemove ==
    \E c \in Conditions :
    \E R \in {remove_by_condition(queue, c, WorldObjects)} :
        /\ pc = "idle" /\ target = NoTarget /\ last = NoCall
        /\ queue' = R.queue
        /\ last' = [op |-> "remove_by_condition", arg |-> 0,
                    raised |-> FALSE]
        /\ trace' = <<[op |-> "remove_by_condition", condition |-> c,
                       removed |-> R.removed]>>
        /\ UNCHANGED <<current_time, stats, pc, event, target, base, added,
                       resolved, world_objects, label_counters, objs, evs>>

NextFilter ==
    \/ FilterNewQubit
    \/ FilterNewDummy
    \/ FilterDestroy
    \/ FilterRemove

SpecFilter == InitFilter /\ [][NextFilter]_vars

(* The step is a call of remove_by_condition. *)
RemoveCall == last = NoCall /\ last'.op = "remove_by_condition"

(* The place of a pending event in the queue q. *)
Position(q, x) == CHOOSE k \in 1 .. Len(q) : q[k] = x

(* The events of s are different events of q, in the order of q. *)
InOrderOf(s, q) ==
    /\ Range(s) \subseteq Range(q)
    /\ \A i, j \in 1 .. Len(s) :
           i < j => Position(q, s[i]) < Position(q, s[j])

(* A pending DiscardQubitEvent whose qubit is not in the world. *)
IsStale(x) ==
    /\ x.type = "DiscardQubitEvent"
    /\ \E k \in 1 .. Len(x.required_objects) :
           x.required_objects[k] \notin WorldObjects

(* C29: remove_by_condition(pred) removes exactly the pending events that  *)
(* satisfy pred, returns them in queue order and leaves every other        *)
(* pending event in the queue in unchanged relative order: the events      *)
(* after time t, the events at even times, and with the condition of the   *)
(* example the DiscardQubitEvents whose qubit is no longer in the world,   *)
(* while the DiscardQubitEvents of qubits in the world and the events of   *)
(* other types stay pending and are not changed.                           *)
C29_RemoveByCondition ==
    [][RemoveCall =>
          /\ \A x \in Range(queue) :
                 /\ x \in Range(trace'[1].removed)
                        <=> Satisfies(trace'[1].condition, x, WorldObjects)
                 /\ x \in Range(queue') <=> x \notin Range(trace'[1].removed)
          /\ InOrderOf(trace'[1].removed, queue)
          /\ InOrderOf(queue', queue)
          /\ Len(trace'[1].removed) + Len(queue') = Len(queue)
          /\ trace'[1].condition.kind = "later" =>
                 \A x \in Range(queue) :
                     x \in Range(queue') <=> x.time <= trace'[1].condition.t
          /\ trace'[1].condition.kind = "even" =>
                 \A x \in Range(queue) :
                     x \in Range(queue') <=> x.time % 2 = 1
          /\ trace'[1].condition.kind = "stale" =>
                 \A x \in Range(queue) :
                     /\ IsStale(x) <=> x \notin Range(queue')
                     /\ x \in Range(queue') => evs'[x.id] = evs[x.id]
          /\ objs' = objs /\ world_objects' = world_objects
    ]_vars

(* A call with the condition of the example pruned the DiscardQubitEvent   *)
(* of a destroyed qubit and left pending the DiscardQubitEvent of a qubit  *)
(* in the world and an event of another type.                              *)
C29_Witness ==
    /\ last.op = "remove_by_condition"
    /\ Len(trace) = 1 /\ trace[1].op = "remove_by_condition"
    /\ trace[1].condition.kind = "stale"
    /\ Len(trace[1].removed) = 1
    /\ trace[1].removed[1].type = "DiscardQubitEvent"
    /\ trace[1].removed[1].required_objects[1] \notin WorldObjects
    /\ \E k \in 1 .. Len(queue) :
           /\ queue[k].type = "DiscardQubitEvent"
           /\ queue[k].required_objects[1] \in WorldObjects
    /\ \E k \in 1 .. Len(queue) : queue[k].type = "GenericEvent"

----------------------------------------------------------------------------
(* C38: when advance_time raises because it would skip a pending event,    *)
(* current_time and the queue are left as they were before the call.       *)
C38_AdvanceTimeRaiseKeepsState ==
    [][\A time_interval \in Times :
          (advance_time(time_interval) /\ last'.raised) =>
              current_time' = current_time /\ queue' = queue
    ]_vars

----------------------------------------------------------------------------
(* The queue used through add_event, resolve_next_event, resolve_until and *)
(* the calls of advance_time that do not raise.                            *)
AdvanceTimeReturns ==
    \E time_interval \in Times :
        /\ ~AdvanceTimeRaises(queue, current_time + time_interval)
        /\ advance_time(time_interval)

NextNoSkip ==
    \/ AddEvent
    \/ ResolveNextEventCall
    \/ ResolveNextEventReturn
    \/ ResolveNextEventRaise
    \/ ResolveUntilCall
    \/ ResolveUntilLoop
    \/ AdvanceTimeReturns

SpecNoSkip == Init /\ [][NextNoSkip]_vars

(* C39: in every state reachable through add_event, resolve_next_event,    *)
(* resolve_until and non-raising advance_time calls, no pending event has  *)
(* a time earlier than current_time.                                       *)
C39_NoPendingInPast ==
    \A k \in 1 .. Len(queue) : queue[k].time >= current_time

(* advance_time has moved the time up to a pending event, after an event   *)
(* was resolved.                                                           *)
C39_Witness ==
    /\ last.op = "advance_time" /\ ~last.raised /\ last.arg > 0
    /\ resolved # <<>>
    /\ queue # <<>> /\ queue[1].time = current_time

----------------------------------------------------------------------------
(* C31: whenever an event that does not ignore blocked objects is resolved *)
(* while at least one of its required objects is blocked, a warning is     *)
(* emitted, whether or not all of its required objects still exist; no     *)
(* warning is emitted for an event with ignore_blocked set.                *)
C31_BlockedWarning ==
    ResolutionLogged =>
        /\ (~trace[1].ignore_blocked /\ trace[1].blocked) => trace[1].warned
        /\ trace[1].ignore_blocked => ~trace[1].warned

(* C31 as amended: the warning is emitted exactly when the event does not  *)
(* ignore blocked objects, all of its required objects are in the world    *)
(* and at least one of them is blocked; with a required object missing, or *)
(* with ignore_blocked set, there is no warning.                           *)
C31_BlockedWarningAmended ==
    ResolutionLogged =>
        (trace[1].warned <=> /\ ~trace[1].ignore_blocked
                             /\ trace[1].blocked
                             /\ ~trace[1].missing)

(* An event resolved with one of its two required objects blocked and both *)
(* in the world: the warning was given and the resolution was unsuccessful.*)
C31_Witness ==
    /\ ResolutionLogged /\ trace[1].warned
    /\ Len(queue) = 0 /\ Len(evs) > 0
    /\ LastEntry.op = "return" /\ ~LastEntry.result
    /\ Cardinality(BlockedObjects) = 1
    /\ Len(evs[trace[1].ev].required_objects) = 2

----------------------------------------------------------------------------
(* GenericEvents that wrap functions with different return values, on the  *)
(* two objects of the event tests, which may be blocked or destroyed.      *)
NewFunctionEvent(req, ignore_blocked, f) ==
    /\ NumberOfType(evs, "GenericEvent") < MaxWorldEvents
    /\ construct_and_add(
           [NewEventRecord(Len(evs) + 1, current_time, "GenericEvent",
                           DefaultPriorityOf("GenericEvent"), req,
                           ignore_blocked, <<>>, TRUE)
            EXCEPT !.resolve_function = f])

ResultNew ==
    \E req \in RequiredChoices, ignore_blocked \in BOOLEAN,
       f \in ResolveFunctions :
        NewFunctionEvent(req, ignore_blocked, f)

NextResult ==
    \/ ResultNew
    \/ EventsBlock
    \/ EventsDestroy
    \/ resolve_next_event

SpecResult == InitEvents /\ [][NextResult]_vars

(* The result of the resolution logged holds the event, its type name, and *)
(* resolve_successful True exactly when the effect ran.                    *)
ResultAsSet ==
    /\ evs[trace[1].ev].event = trace[1].ev
    /\ evs[trace[1].ev].event_type = evs[trace[1].ev].type
    /\ LastEntry.result <=> EffectLogged

(* The result is as set by the event when the wrapped function returns     *)
(* None or a dict without the keys event, event_type and                   *)
(* resolve_successful.                                                     *)
ResultOfPlainFunctions ==
    (ResolutionLogged /\ LastEntry.op = "return"
         /\ evs[trace[1].ev].resolve_function
                \in {"return_none", "return_info"})
        => ResultAsSet

(* C32: the result of resolve always contains event (the event itself),    *)
(* event_type (its type name) and resolve_successful, and                  *)
(* resolve_successful is True exactly when the validity check passed and   *)
(* the effect ran, whatever dict (or None) the effect returned, including  *)
(* for a GenericEvent wrapping an arbitrary function.                      *)
C32_ResultOfResolve ==
    (ResolutionLogged /\ LastEntry.op = "return") => ResultAsSet

----------------------------------------------------------------------------
(* Entanglement swapping with tracked resource costs and a noisy Bell      *)
(* measurement: three stations, of which the middle one is constructed     *)
(* with a BSM_noise_model; pairs constructed with initial costs between    *)
(* the middle station and an outer one; swapping events at any station.    *)

(* The stations of the qubits of the pairs the user constructs, in the     *)
(* order of construction: a pair from the left to the middle station and   *)
(* a pair from the middle to the right station.                            *)
InputPairStations == <<<<1, 2>>, <<2, 3>>>>

(* Largest n_qubits of a channel of the noise model. *)
MaxChannelQubits == 4

Costs == {NoCost} \cup 1 .. MaxCost

ChannelArities == {NoChannel} \cup 2 .. MaxChannelQubits

(* NoiseModel(channel_before=..., map_replace=..., channel_after=...) *)
NoiseModels ==
    [channel_before : ChannelArities, map_replace : BOOLEAN,
     channel_after : {NoChannel, 2, MaxChannelQubits}]

(* Station(world, position, BSM_noise_model=noise_model) *)
Station_init_BSM(w, noise_model) ==
    LET w1 == Station_init(w)
    IN  [w1 EXCEPT !.objs[Len(w1.objs)].BSM_noise_model = noise_model]

InitSwap ==
    /\ InitQueue
    /\ \E noise_model \in NoiseModels :
       \E wA \in {Station_init(EmptyWorld)} :
       \E wM \in {Station_init_BSM(wA, noise_model)} :
       \E w \in {Station_init(wM)} :
           /\ world_objects = w.world_objects
           /\ label_counters = w.label_counters
           /\ objs = w.objs
    /\ evs = <<>>
    /\ trace = <<>>

(* Pair(world, qubits=[station1.create_qubit(), station2.create_qubit()],  *)
(*      initial_state=..., initial_cost_add=..., initial_cost_max=...)      *)
SwapNewPair ==
    \E initial_cost_add, initial_cost_max \in Costs :
        /\ NumberOfType(objs, "Pair") < Len(InputPairStations)
        /\ evs = <<>>
        /\ \E stations \in {InputPairStations[NumberOfType(objs, "Pair") + 1]} :
           \E w1 \in {create_qubit(TheWorld, stations[1])} :
           \E w2 \in {create_qubit(w1, stations[2])} :
               SetWorld(Pair_init_costs(w2, <<Len(w1.objs), Len(w2.objs)>>,
                                        initial_cost_add, initial_cost_max))
        /\ UNCHANGED <<evs, trace, qvars>>

(* pair.destroy_and_track_resources() before the swapping event is        *)
(* constructed, once in a run.                                             *)
SwapTrackDestroy ==
    \E p \in OfType("Pair") :
        /\ OfType("Pair") \subseteq WorldObjects
        /\ evs = <<>>
        /\ SetWorld(destroy_and_track_resources(TheWorld, p))
        /\ UNCHANGED <<evs, trace, qvars>>

SwapNewEvent ==
    \E pair1, pair2 \in OfType("Pair") \cap WorldObjects,
       st \in OfType("Station") :
        /\ pair1 < pair2
        /\ evs = <<>>
        /\ NewSwappingEvent(pair1, pair2, st, <<>>)

NextSwap ==
    \/ SwapNewPair
    \/ SwapTrackDestroy
    \/ SwapNewEvent
    \/ resolve_next_event

SpecSwap == InitSwap /\ [][NextSwap]_vars

(* max(a, b) *)
Max2(a, b) == IF a >= b THEN a ELSE b

IsSwap(e) == evs[e].type = "EntanglementSwappingEvent"

Tracked(c) == c # NoCost

(* C33: when a swapping event returns successfully, a cost that both of    *)
(* its input pairs track is tracked by the pair it created: the sum of     *)
(* the inputs' resource_cost_add and the larger of the inputs'             *)
(* resource_cost_max.                                                      *)
C33_SwapCarriesCosts ==
    [][\A e \in 1 .. Len(evs) :
          (IsSwap(e) /\ Returns(e) /\ ResolvedSuccessfully(e)')
          => \E new \in {evs'[e].returned.output_pair} :
             \E pair1 \in {evs[e].pairs[1]} :
             \E pair2 \in {evs[e].pairs[2]} :
                /\ (Tracked(objs[pair1].resource_cost_add)
                      /\ Tracked(objs[pair2].resource_cost_add))
                   => objs'[new].resource_cost_add
                        = objs[pair1].resource_cost_add
                          + objs[pair2].resource_cost_add
                /\ (Tracked(objs[pair1].resource_cost_max)
                      /\ Tracked(objs[pair2].resource_cost_max))
                   => objs'[new].resource_cost_max
                        = Max2(objs[pair1].resource_cost_max,
                               objs[pair2].resource_cost_max)]_vars

(* What the code does instead: the pair a swapping event created tracks    *)
(* no cost, whatever its input pairs track.                                *)
SwapOutputUntracked ==
    [][\A e \in 1 .. Len(evs) :
          (IsSwap(e) /\ Returns(e) /\ ResolvedSuccessfully(e)')
          => /\ objs'[evs'[e].returned.output_pair].resource_cost_add = NoCost
             /\ objs'[evs'[e].returned.output_pair].resource_cost_max = NoCost
      ]_vars

(* The names of the maps of a state, in the order they were applied. *)
MapsOf(state) == [k \in 1 .. Len(state) |-> state[k].map]

(* The swapping event e runs its effect in this step: it is resolved and   *)
(* found valid.                                                            *)
SwapEffectRuns(e) ==
    /\ IsSwap(e)
    /\ queue # <<>> /\ queue[1].id = e
    /\ trace' # trace
    /\ trace' # <<>> /\ trace'[1] = ResolveEntry(queue[1])
    /\ \E k \in 1 .. Len(trace') : trace'[k] = [op |-> "effect", ev |-> e]

RaisedBy(e) == trace'[Len(trace')].op = "raise" /\ trace'[Len(trace')].ev = e

(* C36: of a swapping event whose effect runs at a station with the noise  *)
(* model nm.  When the event returns, the state of the pair it created is  *)
(* the four-qubit state after channel_before if nm has one, then after     *)
(* map_replace if nm has one and after the projection otherwise, then      *)
(* after channel_after if nm has one, in this order and nothing else.      *)
(* When the channel_before of nm is neither a 2- nor a 4-qubit channel     *)
(* the resolution raises, and the world holds the same objects as before:  *)
(* no pair or qubit was destroyed and no pair was created.                 *)
C36_BellMeasurementSequence ==
    [][\A e \in 1 .. Len(evs) :
          SwapEffectRuns(e)
          => \E nm \in {objs[evs[e].station].BSM_noise_model} :
                /\ ~RaisedBy(e)
                   => /\ Returns(e)
                      /\ MapsOf(objs'[evs'[e].returned.output_pair].state)
                           = (IF nm.channel_before # NoChannel
                              THEN <<"channel_before">> ELSE <<>>)
                             \o (IF nm.map_replace THEN <<"map_replace">>
                                 ELSE <<"projection">>)
                             \o (IF nm.channel_after # NoChannel
                                 THEN <<"channel_after">> ELSE <<>>)
                /\ nm.channel_before \notin {NoChannel, 2, 4}
                   => /\ RaisedBy(e)
                      /\ world_objects' = world_objects
                      /\ Len(objs') = Len(objs)
                      /\ \A st \in OfType("Station") :
                             objs'[st].qubits = objs[st].qubits
      ]_vars

(* A swapping event returned the pair it made with a channel before, the   *)
(* replacing map and a channel after.                                      *)
C36_Witness ==
    /\ ResolutionLogged
    /\ LastEntry.op = "return"
    /\ IsSwap(LastEntry.ev)
    /\ LastEntry.result
    /\ MapsOf(objs[evs[LastEntry.ev].returned.output_pair].state)
         = <<"channel_before", "map_replace", "channel_after">>

(* A swapping event raised ValueError for its channel before. *)
SwapRaisedValueError ==
    /\ ResolutionLogged
    /\ LastEntry.op = "raise"
    /\ IsSwap(LastEntry.ev)
    /\ LastEntry.error = "ValueError"

----------------------------------------------------------------------------
(* Qubits of a station and the 2-qubit MultiQubits that own them           *)
(* (quantum_objects/station.py, qubit.py, multi_qubit.py): the station     *)
(* creates qubits, two qubits in the world that are not part of an object  *)
(* in the world are made a pair, qubits and pairs are destroyed, noise is  *)
(* applied to qubits, and DiscardQubitEvents are added and resolved.       *)

(* Number of qubits the station creates. *)
MaxOwnerQubits == 3

(* Number of MultiQubits constructed. *)
MaxOwners == 2

(* World() and Station(world, position=0) *)
InitOwner ==
    /\ InitQueue
    /\ \E w \in {station_Station_init(EmptyWorld, NoCutoff)} :
          /\ world_objects = w.world_objects
          /\ label_counters = w.label_counters
          /\ objs = w.objs
    /\ evs = <<>>
    /\ trace = <<>>

IsMultiQubit(o) == objs[o].type = MultiQubitType(Len(objs[o].qubits))

(* station.create_qubit() of the station without cutoff time *)
OwnerNewQubit ==
    /\ NumberOfType(objs, "Qubit") < MaxOwnerQubits
    /\ SetWorld(register_qubit(qubit_Qubit_init(TheWorld), 1, Len(objs) + 1))
    /\ UNCHANGED <<evs, trace, qvars>>

(* The qubit is part of no object that is in the world. *)
Free(q) ==
    objs[q].higher_order_object = NoObject
    \/ objs[q].higher_order_object \notin WorldObjects

(* MultiQubit(world, qubits=[q1, q2], initial_state) *)
OwnerAttach ==
    \E q1, q2 \in OfType("Qubit") \cap WorldObjects :
        /\ q1 < q2
        /\ Free(q1) /\ Free(q2)
        /\ Cardinality({o \in 1 .. Len(objs) : IsMultiQubit(o)}) < MaxOwners
        /\ SetWorld(MultiQubit_init(TheWorld, <<q1, q2>>).world)
        /\ UNCHANGED <<evs, trace, qvars>>

(* o.destroy() of a qubit or a multi-qubit object that is in the world. *)
OwnerDestroyOf(o) ==
    /\ o \in WorldObjects
    /\ objs[o].type # "Station"
    /\ SetWorld(world_object_destroy(TheWorld, o))
    /\ UNCHANGED <<evs, trace, qvars>>

OwnerDestroy == \E o \in 1 .. Len(objs) : OwnerDestroyOf(o)

(* qubit.apply_noise(noise_channel) of a qubit in the world *)
OwnerApplyNoiseTo(q) ==
    /\ q \in OfType("Qubit") \cap WorldObjects
    /\ NoisesApplied < MaxNoises
    /\ objs' = apply_noise(objs, q, "X", <<>>).objs
    /\ UNCHANGED <<world_objects, label_counters, evs, trace, qvars>>

OwnerApplyNoise == \E q \in 1 .. Len(objs) : OwnerApplyNoiseTo(q)

OwnerDiscard ==
    \E q \in OfType("Qubit") \cap WorldObjects :
        NewDiscardQubitEvent(q, <<>>)

NextOwner ==
    \/ OwnerNewQubit
    \/ OwnerAttach
    \/ OwnerDestroy
    \/ OwnerApplyNoise
    \/ OwnerDiscard
    \/ resolve_next_event

SpecOwner == InitOwner /\ [][NextOwner]_vars

LiveQubits == OfType("Qubit") \cap WorldObjects

(* The multi-qubit objects that were destroyed. *)
DestroyedOwners == {m \in 1 .. Len(objs) : IsMultiQubit(m)} \ WorldObjects

(* The qubit holds a noise handler of the object m. *)
HoldsHandlerOf(q, m) ==
    \E k \in 1 .. Len(objs[q].noise_handlers) :
        /\ objs[q].noise_handlers[k].kind = "MultiQubit"
        /\ objs[q].noise_handlers[k].owner = m

(* The qubit holds the destroy listener of the object m. *)
HoldsListenerOf(q, m) ==
    [kind |-> "on_qubit_destroy", obj |-> m] \in Range(objs[q].destroy_callbacks)

(* C34: no qubit in the world holds a noise handler or a destroy listener  *)
(* of a multi-qubit object that was destroyed, and noise applied to a      *)
(* qubit changes the state of no destroyed object: it is queued at the     *)
(* qubit or changes the state of the object the qubit is part of now.      *)
C34_DestroyRemovesRegistration ==
    [][/\ \A q \in LiveQubits' : \A m \in DestroyedOwners' :
              ~HoldsHandlerOf(q, m)' /\ ~HoldsListenerOf(q, m)'
       /\ \A q \in 1 .. Len(objs) :
              OwnerApplyNoiseTo(q)
              => /\ \A m \in DestroyedOwners : objs'[m].state = objs[m].state
                 /\ \/ Len(objs'[q].unresolved_noises)
                         = Len(objs[q].unresolved_noises) + 1
                    \/ /\ ~Free(q)
                       /\ Len(objs'[objs[q].higher_order_object].state)
                            = Len(objs[objs[q].higher_order_object].state) + 1
      ]_vars

(* What the code does: the noise handlers of a destroyed object are taken  *)
(* off its qubits in the world, and noise applied afterwards does not      *)
(* reach the destroyed object.                                             *)
DestroyRemovesHandlers ==
    [][/\ \A q \in LiveQubits' : \A m \in DestroyedOwners' :
              ~HoldsHandlerOf(q, m)'
       /\ \A q \in 1 .. Len(objs) :
              OwnerApplyNoiseTo(q)
              => /\ \A m \in DestroyedOwners : objs'[m].state = objs[m].state
                 /\ \/ Len(objs'[q].unresolved_noises)
                         = Len(objs[q].unresolved_noises) + 1
                    \/ /\ ~Free(q)
                       /\ Len(objs'[objs[q].higher_order_object].state)
                            = Len(objs[objs[q].higher_order_object].state) + 1
      ]_vars

(* A qubit in the world holds the destroy listener of a destroyed object. *)
ListenerOfDestroyedOwner ==
    \E q \in LiveQubits : \E m \in DestroyedOwners : HoldsListenerOf(q, m)

(* The same objects without noise and events: qubits are created, made     *)
(* pairs and destroyed.                                                    *)
NextCascade ==
    \/ OwnerNewQubit
    \/ OwnerAttach
    \/ OwnerDestroy

SpecCascade == InitOwner /\ [][NextCascade]_vars

(* The position of the first callback of the kind in the destroy callbacks *)
(* of the object, 0 if there is none.                                      *)
FirstCallback(o, kind) ==
    IF \E k \in 1 .. Len(objs[o].destroy_callbacks) :
           objs[o].destroy_callbacks[k].kind = kind
    THEN CHOOSE k \in 1 .. Len(objs[o].destroy_callbacks) :
             /\ objs[o].destroy_callbacks[k].kind = kind
             /\ \A j \in 1 .. k - 1 : objs[o].destroy_callbacks[j].kind # kind
    ELSE 0

(* The qubits in the list of the station of the qubit q. *)
AtItsStation(q) == q \in Range(objs[objs[q].station].qubits)

(* C35: destroy() of a qubit that is part of a multi-qubit object in the   *)
(* world takes the qubit out of the world and out of the list of its       *)
(* station and the object out of the world, by the destroy callbacks of    *)
(* the qubit, of which the listener of the object comes after the          *)
(* deregistration and the removal from the station; every other qubit      *)
(* stays in the world and at its station.  destroy() of a multi-qubit      *)
(* object takes only the object out of the world: its qubits stay in the   *)
(* world and the lists of the stations are as before.                      *)
C35_DestructionCascadesUpward ==
    [][\A o \in 1 .. Len(objs) :
          OwnerDestroyOf(o)
          => IF objs[o].type = "Qubit"
             THEN /\ o \notin WorldObjects'
                  /\ ~AtItsStation(o)'
                  /\ \A m \in WorldObjects :
                         (IsMultiQubit(m) /\ o \in Range(objs[m].qubits))
                         => /\ m \notin WorldObjects'
                            /\ 0 < FirstCallback(o, "deregister_world_object")
                            /\ FirstCallback(o, "deregister_world_object")
                                 < FirstCallback(o, "on_qubit_destroy")
                            /\ 0 < FirstCallback(o, "remove_qubit")
                            /\ FirstCallback(o, "remove_qubit")
                                 < FirstCallback(o, "on_qubit_destroy")
                  /\ \A q \in LiveQubits \ {o} :
                         /\ q \in WorldObjects'
                         /\ AtItsStation(q)' <=> AtItsStation(q)
             ELSE /\ WorldObjects' = WorldObjects \ {o}
                  /\ \A q \in Range(objs[o].qubits) :
                         q \in WorldObjects => q \in WorldObjects'
                  /\ \A st \in OfType("Station") :
                         objs'[st].qubits = objs[st].qubits
      ]_vars

(* A qubit of a pair was destroyed: the qubit and the pair are out of the  *)
(* world, the other qubit of the pair is in the world and at its station.  *)
C35_Witness ==
    \E m \in DestroyedOwners :
        /\ objs[m].qubits[1] \notin WorldObjects
        /\ ~AtItsStation(objs[m].qubits[1])
        /\ objs[m].qubits[2] \in WorldObjects
        /\ AtItsStation(objs[m].qubits[2])

(* C40: the higher_order_object of every qubit in the world is None or an  *)
(* object that is in the world and has the qubit among its qubits.         *)
C40_OwnerInWorld ==
    \A q \in LiveQubits :
        \/ objs[q].higher_order_object = NoObject
        \/ /\ objs[q].higher_order_object \in WorldObjects
           /\ q \in Range(objs[objs[q].higher_order_object].qubits)

(* The consequence drawn in C40: a DiscardQubitEvent whose qubit is part   *)
(* of no object in the world takes no other qubit out of the world.        *)
DiscardOfFreeQubit ==
    [][\A e \in 1 .. Len(evs) :
          (evs[e].type = "DiscardQubitEvent" /\ Returns(e)
             /\ Free(evs[e].required_objects[1]))
          => LiveQubits \ LiveQubits' \subseteq {evs[e].required_objects[1]}
      ]_vars

(* What the code keeps: the higher_order_object of a qubit is None or an   *)
(* object, in the world or destroyed, that has the qubit among its qubits. *)
OwnerHasQubit ==
    \A q \in OfType("Qubit") :
        \/ objs[q].higher_order_object = NoObject
        \/ /\ IsMultiQubit(objs[q].higher_order_object)
           /\ q \in Range(objs[objs[q].higher_order_object].qubits)

----------------------------------------------------------------------------
(* Time-dependent noise (quantum_objects/world_object.py, qubit.py,        *)
(* station.py): a station with memory noise creates qubits while the time  *)
(* advances, two qubits are made a pair, the memory noise of a qubit is    *)
(* removed, and update_time is called on qubits and pairs.  The trace      *)
(* keeps the time each qubit was created at.                               *)

(* Number of qubits the station with memory noise creates. *)
MaxTimedQubits == 2

(* Number of times the memory noise is applied, over all qubits. *)
MaxUpdates == 2

(* World() and Station(world, position=0, memory_noise=memory_noise) *)
InitTime ==
    /\ InitQueue
    /\ \E w \in {station_Station_init(EmptyWorld, NoCutoff)} :
          /\ world_objects = w.world_objects
          /\ label_counters = w.label_counters
          /\ objs = [w.objs EXCEPT ![1].memory_noise = "memory_noise"]
    /\ evs = <<>>
    /\ trace = <<>>

(* station.create_qubit() at the current time: last_updated of the new     *)
(* qubit is the current time.                                              *)
TimeCreateQubit ==
    /\ NumberOfType(objs, "Qubit") < MaxTimedQubits
    /\ SetWorld(register_qubit(qubit_Qubit_init(TheWorld), 1, Len(objs) + 1))
    /\ trace' = Append(trace, [op |-> "create_qubit", obj |-> Len(objs) + 1,
                               time |-> current_time])
    /\ UNCHANGED <<evs, qvars>>

(* o.update_time() of a qubit or a pair *)
TimeUpdateOf(o) ==
    /\ o \in 1 .. Len(objs)
    /\ objs[o].type # "Station"
    /\ NoisesApplied + (IF objs[o].type = "Qubit" THEN 1
                        ELSE Len(objs[o].qubits)) <= MaxUpdates
    /\ objs' = update_time(objs, o, current_time)
    /\ UNCHANGED <<world_objects, label_counters, evs, trace, qvars>>

TimeUpdate == \E o \in 1 .. Len(objs) : TimeUpdateOf(o)

(* Qubit.remove_time_dependent_noise(noise_channel): list.remove, the      *)
(* ValueError of a channel that is not listed is caught.                   *)
remove_time_dependent_noise(os, q, noise_channel) ==
    IF noise_channel \in Range(os[q].time_dependent_noises)
    THEN [os EXCEPT ![q].time_dependent_noises = ListRemove(@, noise_channel)]
    ELSE os

(* Number of qubits whose memory noise was removed. *)
MaxRemovedNoises == 1

(* qubit.remove_time_dependent_noise(memory_noise) from outside. *)
TimeRemoveNoise ==
    \E q \in OfType("Qubit") :
        \E os \in {remove_time_dependent_noise(objs, q, "memory_noise")} :
            /\ Cardinality({p \in OfType("Qubit") :
                                os[p].time_dependent_noises = <<>>})
                   <= MaxRemovedNoises
            /\ objs' = os
            /\ UNCHANGED <<world_objects, label_counters, evs, trace, qvars>>

NextTime ==
    \/ TimeCreateQubit
    \/ OwnerAttach
    \/ TimeUpdate
    \/ TimeRemoveNoise
    \/ AdvanceTime

SpecTime == InitTime /\ [][NextTime]_vars

(* The time the qubit was created at. *)
CreatedAt(q) ==
    trace[CHOOSE k \in 1 .. Len(trace) : trace[k].obj = q].time

(* The times the noises applied to the qubit were applied with. *)
ElapsedTimes(q) == [k \in 1 .. Len(objs[q].applied) |-> objs[q].applied[k].args[1]]

RECURSIVE SumFrom(_, _)
SumFrom(s, k) == IF k > Len(s) THEN 0 ELSE s[k] + SumFrom(s, k + 1)

(* The qubits an update of the object updates. *)
UpdatedBy(o) ==
    IF objs[o].type = "Qubit" THEN {o} ELSE Range(objs[o].qubits)

(* The qubit has a time-dependent noise channel: the memory noise of its   *)
(* station, which it is given when it is created and keeps until the       *)
(* channel is removed.                                                     *)
HasTimeDependentNoise(q) == objs[q].time_dependent_noises # <<>>

(* C37: update_time of a qubit with a time-dependent noise channel, or of  *)
(* its pair, applies the channel once, with the time from the last update  *)
(* (or the creation) of the qubit to the current time, which is not        *)
(* negative and is 0 for a second update at the same time, and leaves the  *)
(* other qubits as they are; the times applied to a qubit with the channel *)
(* add up to the time from its creation to its last update.                *)
C37_ElapsedTimes ==
    [][/\ \A o \in 1 .. Len(objs) :
              TimeUpdateOf(o)
              => \A q \in OfType("Qubit") :
                     IF q \in UpdatedBy(o) /\ HasTimeDependentNoise(q)
                     THEN /\ objs'[q].applied
                               = Append(objs[q].applied,
                                        [channel |-> "memory_noise",
                                         args |-> <<current_time
                                                    - objs[q].last_updated>>])
                          /\ current_time - objs[q].last_updated >= 0
                          /\ objs'[q].last_updated = current_time
                          /\ objs[q].last_updated = current_time
                             => objs'[q].applied[Len(objs'[q].applied)].args
                                  = <<0>>
                     ELSE IF q \in UpdatedBy(o)
                     THEN objs'[q] = [objs[q] EXCEPT
                                         !.last_updated = current_time]
                     ELSE objs'[q] = objs[q]
       /\ \A q \in OfType("Qubit")' :
              HasTimeDependentNoise(q)'
              => SumFrom(ElapsedTimes(q)', 1)
                     = objs'[q].last_updated - CreatedAt(q)'
      ]_vars

(* A qubit with the channel was updated twice at the same time, after the  *)
(* time advanced.                                                          *)
C37_Witness ==
    \E q \in OfType("Qubit") :
        /\ HasTimeDependentNoise(q)
        /\ Len(objs[q].applied) >= 2
        /\ ElapsedTimes(q)[1] > 0
        /\ ElapsedTimes(q)[2] = 0

====
